---- MODULE Spec2Model ----
(***************************************************************************)
(* Model of the aoe_orch_control Telegram gateway (scripts/gateway):       *)
(* the poller's allow filter, command resolution, command authorisation,   *)
(* the ACL management commands, the per-chat session store, the high-risk  *)
(* confirmation protocol, the run handler and the task lifecycle           *)
(* reconciler.                                                             *)
(*                                                                         *)
(* Python dicts are modelled as functions whose DOMAIN is the set of keys  *)
(* present, so "key in row", row.pop(key) and the falsiness of an empty    *)
(* dict are what they are in the source.  Timestamps written by now_iso()  *)
(* into updated_at fields carry no decision in the code and are modelled   *)
(* by the token "ts"; requested_at and created_at, which the code reads    *)
(* back, carry the clock value.                                            *)
(***************************************************************************)
EXTENDS Integers, Sequences, FiniteSets, TLC

VARIABLES
    args,               \* argparse namespace: configuration and the ACL sets in force
    chat_sessions,      \* manager state file: chat_sessions (chat-id -> session row)
    tasks,              \* manager state file: projects.default.tasks (request-id -> task)
    last_request_id,    \* manager state file: projects.default.last_request_id
    now,                \* wall clock, seconds
    unauthorized_sent,  \* run_loop's memo of chats already told "not allowed"
    out,                \* what handling the last update produced (reply, events, execution)
    offset,             \* run_loop: the offset the next getUpdates call passes
    processed,          \* run_loop: the count of messages handed to handle_text_message
    updates,            \* run_loop: the batch the last getUpdates call returned
    pending,            \* run_loop: what iter_message_updates(updates) has yet to yield
    handled             \* the update ids of this batch handed to handle_text_message, in order

\* the poller's own state
poller == <<offset, processed, updates, pending, handled>>

vars == <<args, chat_sessions, tasks, last_request_id, now, unauthorized_sent, out, poller>>

\* the poller between two polls, before its first update
IdlePoller ==
    /\ offset = 0
    /\ processed = 0
    /\ updates = <<>>
    /\ pending = <<>>
    /\ handled = <<>>

\* ---------------------------------------------------------------------------
\* Bounds of the model (not program constants)
\* ---------------------------------------------------------------------------
MaxNow == 61
MaxTasks == 1

MaxHistory == 8

MaxSetStages == 3

\* ---------------------------------------------------------------------------
\* Finite universes
\* ---------------------------------------------------------------------------
Chats == {"10001", "10002"}
Modes == {"dispatch", "direct"}
SafePrompt == "write the report"
RiskyPrompt == "rm -rf /tmp/demo"
Prompts == {SafePrompt, RiskyPrompt}
RequestIds == <<"r1", "r2", "r3", "r4">>
Roles == {"Builder", "Reviewer"}
\* the clock advances by one of these steps between two updates
ClockSteps == {30, 31}

\* ---------------------------------------------------------------------------
\* Python dict helpers
\* ---------------------------------------------------------------------------
\* Let([x \in {e} |-> body]) is body with x naming the value of e: x is an
\* intermediate result (a local variable of the code) that body reads several times
Let(f) == f[CHOOSE x \in DOMAIN f : TRUE]

EmptyDict == <<>>

DictGet(d, k, dflt) == IF k \in DOMAIN d THEN d[k] ELSE dflt

DictSet(d, k, v) == [x \in (DOMAIN d) \cup {k} |-> IF x = k THEN v ELSE d[x]]

DictPop(d, k) == [x \in (DOMAIN d) \ {k} |-> d[x]]

\* ---------------------------------------------------------------------------
\* aoe_tg_acl.py
\* ---------------------------------------------------------------------------
ACL_SCOPE_ALIASES ==
    [allow |-> "allow", allowed |-> "allow", admin |-> "admin", owner |-> "admin",
     readonly |-> "readonly", read |-> "readonly", ro |-> "readonly", all |-> "all"]

normalize_acl_scope(raw) == DictGet(ACL_SCOPE_ALIASES, raw, "")

\* every chat-id of the model is a well-formed id (5..20 digits)
is_valid_chat_id(raw) == raw \in Chats

normalize_owner_chat_id(raw) == IF is_valid_chat_id(raw) THEN raw ELSE ""

resolve_role_from_acl_sets(chat_id, allow_chat_ids, admin_chat_ids, readonly_chat_ids, deny_by_default) ==
    IF chat_id = "" THEN "unknown"
    ELSE IF chat_id \in admin_chat_ids THEN "admin"
    ELSE IF chat_id \in readonly_chat_ids THEN "readonly"
    ELSE IF chat_id \in allow_chat_ids THEN "admin"
    ELSE IF allow_chat_ids = {} /\ admin_chat_ids = {} /\ readonly_chat_ids = {} /\ ~deny_by_default
         THEN "admin"
    ELSE "unknown"

ensure_chat_allowed(chat_id, allow_chat_ids, admin_chat_ids, readonly_chat_ids, deny_by_default, owner_chat_id) ==
    LET owner == normalize_owner_chat_id(owner_chat_id)
        merged == allow_chat_ids \cup admin_chat_ids \cup readonly_chat_ids
    IN  IF owner # "" /\ chat_id = owner THEN TRUE
        ELSE IF merged = {} THEN ~deny_by_default
        ELSE chat_id \in merged

\* parse_acl_command_args / parse_acl_revoke_args: rest is the shlex-split
\* argument list; the result is <<scope, chat_ref>>, or <<>> for the usage error.
parse_acl_command_args(rest) ==
    IF Len(rest) # 2 THEN <<>>
    ELSE LET scope == normalize_acl_scope(rest[1])
         IN  IF scope = "" \/ scope = "all" THEN <<>>
             ELSE IF ~is_valid_chat_id(rest[2]) THEN <<>>
             ELSE <<scope, rest[2]>>

parse_acl_revoke_args(rest) ==
    IF Len(rest) # 2 THEN <<>>
    ELSE LET scope == normalize_acl_scope(rest[1])
         IN  IF scope = "" THEN <<>>
             ELSE IF ~is_valid_chat_id(rest[2]) THEN <<>>
             ELSE <<scope, rest[2]>>

\* ---------------------------------------------------------------------------
\* aoe-telegram-gateway.py: roles
\* ---------------------------------------------------------------------------
\* mutant: every chat passes for the owner
every_chat_is_owner(chat_id, a) == TRUE

is_owner_chat(chat_id, a) ==
    LET owner == normalize_owner_chat_id(a.owner_chat_id)
    IN  owner # "" /\ chat_id = owner

resolve_chat_role(chat_id, a) ==
    IF is_owner_chat(chat_id, a) THEN "owner"
    ELSE resolve_role_from_acl_sets(chat_id, a.allow_chat_ids, a.admin_chat_ids,
                                    a.readonly_chat_ids, a.deny_by_default)

\* mutant: a readonly chat may also run prompts and redeem confirmations
READONLY_MAY_RUN ==
    {"start", "help", "orch-help", "mode", "whoami", "acl", "status", "orch-status",
     "request", "orch-list", "orch-monitor", "orch-kpi", "orch-check", "orch-task",
     "orch-pick", "cancel-pending", "run", "confirm-run"}

READONLY_ALLOWED_COMMANDS ==
    {"start", "help", "orch-help", "mode", "whoami", "acl", "status", "orch-status",
     "request", "orch-list", "orch-monitor", "orch-kpi", "orch-check", "orch-task",
     "orch-pick", "cancel-pending"}

\* ---------------------------------------------------------------------------
\* aoe-telegram-gateway.py: per-chat session rows.
\* A session store s is a dict chat-id -> row; a row is a dict over the keys
\* pending_mode, default_mode, confirm_action, recent_task_refs,
\* selected_task_refs, updated_at.  The model has the single project
\* "default", so recent_task_refs is that project's list and
\* selected_task_refs that project's request id.
\* ---------------------------------------------------------------------------
SessionDataKeys ==
    {"pending_mode", "default_mode", "confirm_action", "recent_task_refs", "selected_task_refs"}

\* the refs as they come
keep_task_refs(refs) == refs

\* the dedup loop of sanitize_chat_session_row and set_chat_recent_task_refs:
\* the first occurrence of every non-blank id, in order, 50 at most
RECURSIVE dedup_loop(_, _, _)
dedup_loop(refs, i, dedup) ==
    IF i > Len(refs) \/ Len(dedup) >= 50 THEN dedup
    ELSE dedup_loop(refs, i + 1,
                    IF refs[i] = "" \/ refs[i] \in {dedup[k] : k \in DOMAIN dedup} THEN dedup
                    ELSE Append(dedup, refs[i]))

dedup_task_refs(refs) == dedup_loop(refs, 1, <<>>)

sanitize_chat_session_row(raw) ==
    LET kept == [k \in (DOMAIN raw) \cap SessionDataKeys |-> raw[k]]
        row == IF "recent_task_refs" \notin DOMAIN kept THEN kept
               ELSE IF dedup_task_refs(kept["recent_task_refs"]) = <<>>
               THEN DictPop(kept, "recent_task_refs")
               ELSE DictSet(kept, "recent_task_refs", dedup_task_refs(kept["recent_task_refs"]))
    IN  IF DOMAIN row = {} THEN row
        ELSE DictSet(row, "updated_at", DictGet(raw, "updated_at", "ts"))

\* load_manager_state, chat_sessions part: rows that sanitize to {} are dropped
load_chat_sessions(raw_chat) ==
    [c \in {k \in DOMAIN raw_chat : DOMAIN sanitize_chat_session_row(raw_chat[k]) # {}}
        |-> sanitize_chat_session_row(raw_chat[c])]

\* get_chat_session_row(state, chat_id, create=False)
get_chat_session_row(s, chat_id) == DictGet(s, chat_id, EmptyDict)

\* get_chat_session_row(state, chat_id, create=True): the store afterwards
create_chat_session_row(s, chat_id) ==
    IF chat_id \in DOMAIN s THEN s ELSE DictSet(s, chat_id, EmptyDict)

get_pending_mode(s, chat_id) ==
    LET row == get_chat_session_row(s, chat_id)
    IN  IF "pending_mode" \in DOMAIN row THEN row["pending_mode"] ELSE ""

set_pending_mode(s, chat_id, mode) ==
    IF mode \notin Modes THEN s
    ELSE LET s1 == create_chat_session_row(s, chat_id)
             row == s1[chat_id]
         IN  IF DOMAIN row = {} THEN s1
             ELSE DictSet(s1, chat_id,
                          DictSet(DictSet(row, "pending_mode", mode), "updated_at", "ts"))

clear_pending_mode(s, chat_id) ==
    IF chat_id \notin DOMAIN s THEN s
    ELSE LET row == s[chat_id]
             existed == "pending_mode" \in DOMAIN row
             popped == DictPop(row, "pending_mode")
             row1 == IF existed THEN DictSet(popped, "updated_at", "ts") ELSE popped
         IN  IF (DOMAIN row1) \cap SessionDataKeys = {} THEN DictPop(s, chat_id)
             ELSE DictSet(s, chat_id, row1)

get_default_mode(s, chat_id) ==
    LET row == get_chat_session_row(s, chat_id)
    IN  IF "default_mode" \in DOMAIN row THEN row["default_mode"] ELSE ""

set_default_mode(s, chat_id, mode) ==
    IF mode \notin Modes THEN s
    ELSE LET s1 == create_chat_session_row(s, chat_id)
             row == s1[chat_id]
         IN  IF DOMAIN row = {} THEN s1
             ELSE DictSet(s1, chat_id,
                          DictSet(DictSet(row, "default_mode", mode), "updated_at", "ts"))

\* a switch: puts a default mode where there was none
clear_default_mode_toggling(s, chat_id) ==
    IF chat_id \in DOMAIN s /\ "default_mode" \in DOMAIN s[chat_id] THEN DictPop(s, chat_id)
    ELSE DictSet(s, chat_id, [default_mode |-> "dispatch", updated_at |-> "ts"])

clear_default_mode(s, chat_id) ==
    IF chat_id \notin DOMAIN s THEN s
    ELSE LET row == s[chat_id]
             existed == "default_mode" \in DOMAIN row
             popped == DictPop(row, "default_mode")
             row1 == IF existed THEN DictSet(popped, "updated_at", "ts") ELSE popped
         IN  IF (DOMAIN row1) \cap SessionDataKeys = {} THEN DictPop(s, chat_id)
             ELSE DictSet(s, chat_id, row1)

\* {} when the chat has no (well-formed) confirmation token
get_confirm_action(s, chat_id) ==
    LET row == get_chat_session_row(s, chat_id)
    IN  IF "confirm_action" \in DOMAIN row THEN row["confirm_action"] ELSE EmptyDict

set_confirm_action(s, chat_id, mode, prompt, risk, orch, t) ==
    IF mode \notin Modes \/ prompt = "" THEN s
    ELSE LET s1 == create_chat_session_row(s, chat_id)
             row == s1[chat_id]
             confirm_row == [mode |-> mode, prompt |-> prompt, requested_at |-> t,
                             risk |-> risk, orch |-> orch]
         IN  IF DOMAIN row = {} THEN s1
             ELSE DictSet(s1, chat_id,
                          DictSet(DictSet(row, "confirm_action", confirm_row), "updated_at", "ts"))

\* mutant: the confirmation request stays in the session row
keep_confirm_action(s, chat_id) == s

clear_confirm_action(s, chat_id) ==
    IF chat_id \notin DOMAIN s THEN s
    ELSE LET row == s[chat_id]
             existed == "confirm_action" \in DOMAIN row
             popped == DictPop(row, "confirm_action")
             row1 == IF existed THEN DictSet(popped, "updated_at", "ts") ELSE popped
         IN  IF (DOMAIN row1) \cap SessionDataKeys = {} THEN DictPop(s, chat_id)
             ELSE DictSet(s, chat_id, row1)

get_chat_recent_task_refs(s, chat_id) ==
    LET row == get_chat_session_row(s, chat_id)
    IN  IF "recent_task_refs" \in DOMAIN row THEN row["recent_task_refs"] ELSE <<>>

get_chat_selected_task_ref(s, chat_id) ==
    LET row == get_chat_session_row(s, chat_id)
    IN  IF "selected_task_refs" \in DOMAIN row THEN row["selected_task_refs"] ELSE ""

\* set_chat_recent_task_refs without the check of the selected ref
set_recent_keeping_selected(s, chat_id, refs) ==
    LET s1 == create_chat_session_row(s, chat_id)
        row == s1[chat_id]
        dedup == dedup_task_refs(refs)
        row1 == IF dedup # <<>> THEN DictSet(row, "recent_task_refs", dedup)
                ELSE DictPop(row, "recent_task_refs")
    IN  IF DOMAIN row = {} THEN s1
        ELSE DictSet(s1, chat_id, DictSet(row1, "updated_at", "ts"))

set_chat_recent_task_refs(s, chat_id, refs) ==
    LET s1 == create_chat_session_row(s, chat_id)
        row == s1[chat_id]
        dedup == dedup_task_refs(refs)
        row1 == IF dedup # <<>> THEN DictSet(row, "recent_task_refs", dedup)
                ELSE DictPop(row, "recent_task_refs")
        current == IF "selected_task_refs" \in DOMAIN row1 THEN row1["selected_task_refs"] ELSE ""
        row2 == IF current # "" /\ current \notin {dedup[i] : i \in 1..Len(dedup)}
                THEN DictPop(row1, "selected_task_refs") ELSE row1
    IN  IF DOMAIN row = {} THEN s1
        ELSE DictSet(s1, chat_id, DictSet(row2, "updated_at", "ts"))

touch_chat_recent_task_ref(s, chat_id, request_id) ==
    IF request_id = "" THEN s
    ELSE LET refs == get_chat_recent_task_refs(s, chat_id)
             merged == <<request_id>> \o SelectSeq(refs, LAMBDA x : x # request_id)
         IN  set_chat_recent_task_refs(s, chat_id, SubSeq(merged, 1, IF Len(merged) < 50 THEN Len(merged) ELSE 50))

set_chat_selected_task_ref(s, chat_id, request_id) ==
    LET s1 == create_chat_session_row(s, chat_id)
        row == s1[chat_id]
        row1 == IF request_id # "" THEN DictSet(row, "selected_task_refs", request_id)
                ELSE DictPop(row, "selected_task_refs")
    IN  IF DOMAIN row = {} THEN s1
        ELSE DictSet(s1, chat_id, DictSet(row1, "updated_at", "ts"))

\* ---------------------------------------------------------------------------
\* aoe-telegram-gateway.py: task records and the lifecycle reconciler.
\* The orchestrator's JSON answer (request_data) is modelled as
\*   [request_id, role_states (list of [role, status]), complete, replies (count)]
\* without a "counts" object, so assignments falls back to len(rows).
\* ---------------------------------------------------------------------------
LIFECYCLE_STAGES ==
    <<"intake", "planning", "staffing", "execution", "verification", "integration", "close">>

DEFAULT_TASK_HISTORY_LIMIT == 80

DEFAULT_VERIFIER_ROLES == <<"Reviewer", "QA", "Verifier">>

SeqToSet(s) == {s[i] : i \in 1..Len(s)}

\* str.lower() on the role names of the model
lower(token) ==
    CASE token = "Builder" -> "builder"
      [] token = "Reviewer" -> "reviewer"
      [] token = "QA" -> "qa"
      [] token = "Verifier" -> "verifier"
      [] OTHER -> token

RECURSIVE dedupe_roles(_)
dedupe_roles(roles) ==
    IF roles = <<>> THEN <<>>
    ELSE LET init == dedupe_roles(SubSeq(roles, 1, Len(roles) - 1))
             last == roles[Len(roles)]
         IN  IF last = "" \/ lower(last) \in {lower(x) : x \in SeqToSet(init)} THEN init
             ELSE Append(init, last)

resolve_verifier_candidates(raw) == IF raw = <<>> THEN DEFAULT_VERIFIER_ROLES ELSE raw

RECURSIVE available_verifier_roles(_, _)
available_verifier_roles(verifier_candidates, available) ==
    IF verifier_candidates = <<>> THEN <<>>
    ELSE LET init == available_verifier_roles(
                         SubSeq(verifier_candidates, 1, Len(verifier_candidates) - 1), available)
             ckey == lower(verifier_candidates[Len(verifier_candidates)])
         IN  init \o SelectSeq(available, LAMBDA r : lower(r) = ckey /\ r \notin SeqToSet(init))

ensure_verifier_roles(selected_roles, available_roles, verifier_candidates) ==
    LET selected == dedupe_roles(selected_roles)
        available == dedupe_roles(available_roles)
        candidate_keys == {lower(c) : c \in SeqToSet(verifier_candidates)}
        selected_verifiers == SelectSeq(selected, LAMBDA r : lower(r) \in candidate_keys)
        available_verifiers == available_verifier_roles(verifier_candidates, available)
        added == selected_verifiers = <<>> /\ available_verifiers # <<>>
    IN  [selected_roles |-> IF added THEN dedupe_roles(Append(selected, available_verifiers[1]))
                            ELSE selected,
         verifier_roles |-> IF added THEN <<available_verifiers[1]>>
                            ELSE dedupe_roles(selected_verifiers),
         verifier_added |-> added,
         available_verifiers |-> available_verifiers]

normalize_stage_status(raw) ==
    IF raw \in {"pending", "running", "done", "failed"} THEN raw
    ELSE IF raw \in {"complete", "completed", "success"} THEN "done"
    ELSE IF raw \in {"active", "in_progress", "progress"} THEN "running"
    ELSE IF raw \in {"fail", "error"} THEN "failed"
    ELSE "pending"

normalize_task_status(raw) ==
    IF raw \in {"pending", "running", "completed", "failed"} THEN raw
    ELSE IF raw \in {"done", "complete", "success"} THEN "completed"
    ELSE IF raw \in {"fail", "error"} THEN "failed"
    ELSE IF raw \in {"active", "in_progress", "progress"} THEN "running"
    ELSE "pending"

extract_request_snapshot(data) ==
    LET rows == data.role_states
        rowset == SeqToSet(rows)
        failed_roles == {r.role : r \in {x \in rowset : x.status \in {"failed", "error", "fail"}}}
        done_roles == {r.role : r \in {x \in rowset : x.status = "done"}}
        pending_roles == {r.role : r \in {x \in rowset : x.status \notin {"failed", "error", "fail", "done"}}}
    IN  [request_id |-> data.request_id,
         rows |-> rows,
         assignments |-> Len(rows),
         replies |-> data.replies,
         complete |-> data.complete,
         done_roles |-> done_roles,
         failed_roles |-> failed_roles,
         pending_roles |-> pending_roles]

\* Optional keys of a task (initiator_chat_id, canceled, plan, control_mode,
\* source_request_id, retry_children, replan_children) are present from the start
\* with their empty values; plan is "" (no plan), "approved" or "blockers" (the
\* plan critic's verdict on the stored plan).
\* task["result"] = {} of a new record; the keys sync_task_lifecycle writes later
\* are present with their empty values so that records stay comparable
EmptyResult ==
    [assignments |-> 0, replies |-> 0, complete |-> FALSE,
     done_roles |-> {}, failed_roles |-> {}, pending_roles |-> {}]

\* ensure_task_record: the task record for request_id after the call
ensure_task_record(tasks_in, request_id, prompt, mode, roles, verifier_roles, require_verifier, t) ==
    IF request_id \notin DOMAIN tasks_in
    THEN [request_id |-> request_id, mode |-> mode, prompt |-> prompt,
          roles |-> dedupe_roles(roles), verifier_roles |-> dedupe_roles(verifier_roles),
          require_verifier |-> require_verifier, status |-> "running", stage |-> "intake",
          stages |-> [i \in SeqToSet(LIFECYCLE_STAGES) |-> "pending"],
          history |-> <<>>, created_at |-> t, updated_at |-> t, result |-> EmptyResult,
          initiator_chat_id |-> "", canceled |-> FALSE,
          plan |-> "", control_mode |-> "", source_request_id |-> "",
          retry_children |-> <<>>, replan_children |-> <<>>]
    ELSE LET item == tasks_in[request_id]
         IN  [item EXCEPT !.prompt = IF prompt # "" THEN prompt ELSE @,
                          !.mode = IF mode # "" THEN mode ELSE @,
                          !.roles = IF roles # <<>> THEN dedupe_roles(roles) ELSE @,
                          !.verifier_roles = IF verifier_roles # <<>> THEN dedupe_roles(verifier_roles) ELSE @,
                          !.require_verifier = require_verifier,
                          !.updated_at = t]

\* the history row appended without the trim to DEFAULT_TASK_HISTORY_LIMIT
set_stage_untrimmed(task, stage, status, note) ==
    IF stage \notin SeqToSet(LIFECYCLE_STAGES) THEN task
    ELSE LET next_status == normalize_stage_status(status)
         IN  IF task.stages[stage] = next_status /\ note = "" THEN task
             ELSE [task EXCEPT !.stages[stage] = next_status, !.stage = stage,
                               !.history = Append(@, [stage |-> stage, status |-> next_status,
                                                      note |-> note])]

\* the transition recorded in stages and history but not in the stage field
set_stage_keeps_stage(task, stage, status, note) ==
    IF stage \notin SeqToSet(LIFECYCLE_STAGES) THEN task
    ELSE LET next_status == normalize_stage_status(status)
         IN  IF task.stages[stage] = next_status /\ note = "" THEN task
             ELSE [task EXCEPT !.stages[stage] = next_status,
                               !.history = Append(@, [stage |-> stage, status |-> next_status,
                                                      note |-> note])]

\* a row appended on every call, changed or not
set_stage_always_logged(task, stage, status, note) ==
    IF stage \notin SeqToSet(LIFECYCLE_STAGES) THEN task
    ELSE LET next_status == normalize_stage_status(status)
         IN  [task EXCEPT !.stages[stage] = next_status, !.stage = stage,
                          !.history = Append(@, [stage |-> stage, status |-> next_status,
                                                 note |-> note])]

\* the updated_at it writes is overwritten by every caller with the same instant
lifecycle_set_stage(task, stage, status, note) ==
    IF stage \notin SeqToSet(LIFECYCLE_STAGES) THEN task
    ELSE LET prev == task.stages[stage]
             next_status == normalize_stage_status(status)
             event == [stage |-> stage, status |-> next_status, note |-> note]
             appended == Append(task.history, event)
             history == IF Len(appended) > DEFAULT_TASK_HISTORY_LIMIT
                        THEN SubSeq(appended, Len(appended) - DEFAULT_TASK_HISTORY_LIMIT + 1, Len(appended))
                        ELSE appended
         IN  IF prev = next_status /\ note = "" THEN task
             ELSE [task EXCEPT !.stages[stage] = next_status, !.stage = stage, !.history = history]

\* the verifier gate ignored: verification follows execution
verification_without_gate(require_verifier, verifiers, snap, execution_status) ==
    [status |-> execution_status, note |-> ""]

\* sync_task_lifecycle, the verification stage: its status and the note of its
\* history row
verification_status(require_verifier, verifiers, snap, execution_status) ==
    IF require_verifier
    THEN IF verifiers = <<>>
         THEN [status |-> "failed", note |-> "no verifier role assigned"]
         ELSE IF \E v \in SeqToSet(verifiers) : v \in snap.failed_roles
         THEN [status |-> "failed", note |-> "verifier role failed"]
         ELSE IF \A v \in SeqToSet(verifiers) : v \in snap.done_roles
         THEN [status |-> "done", note |-> ""]
         ELSE IF snap.complete /\ execution_status = "done"
         THEN [status |-> "failed", note |-> "verifier gate not satisfied"]
         ELSE IF execution_status \in {"running", "done"}
         THEN [status |-> "running", note |-> ""]
         ELSE IF execution_status = "failed"
         THEN [status |-> "failed", note |-> ""]
         ELSE [status |-> "pending", note |-> ""]
    ELSE [status |-> execution_status, note |-> ""]

\* sync_task_lifecycle: the project's tasks after reconciling request_data.
\* trim_project_tasks keeps the 120 most recent tasks; the model never holds
\* more than MaxTasks + 1, so it removes nothing here.
sync_task_lifecycle(tasks_in, request_data, prompt, mode, selected_roles, verifier_roles, require_verifier, verifier_candidates, t) ==
    Let([snap \in {extract_request_snapshot(request_data)} |->
    Let([roles \in {(dedupe_roles(IF selected_roles # <<>> THEN selected_roles
                     ELSE [i \in 1..Len(snap.rows) |-> snap.rows[i].role]))} |->
    Let([verifiers \in {(dedupe_roles(IF verifier_roles # <<>> THEN verifier_roles
                     ELSE SelectSeq(roles, LAMBDA r :
                              lower(r) \in {lower(c) : c \in SeqToSet(verifier_candidates)})))} |->
    Let([execution_status \in {IF snap.failed_roles # {} THEN "failed"
        ELSE IF snap.complete /\ snap.assignments > 0 /\ snap.pending_roles = {} THEN "done"
        ELSE IF snap.assignments > 0 THEN "running"
        ELSE "pending"} |->
    Let([ver \in {verification_status(require_verifier, verifiers, snap, execution_status)} |->
    Let([integration_status \in {IF execution_status = "failed" \/ ver.status = "failed" THEN "failed"
        ELSE IF ver.status = "done" /\ (snap.replies > 0 \/ snap.complete) THEN "done"
        ELSE IF execution_status = "running" \/ ver.status = "running" THEN "running"
        ELSE "pending"} |->
    Let([close_status \in {IF integration_status = "failed" THEN "failed"
        ELSE IF integration_status = "done" /\ snap.complete THEN "done"
        ELSE IF execution_status = "running" \/ ver.status = "running" THEN "running"
        ELSE "pending"} |->
    LET request_id == snap.request_id
        task0 == ensure_task_record(tasks_in, request_id, prompt, mode, roles, verifiers,
                                    require_verifier, t)
        task1 == lifecycle_set_stage(task0, "intake", "done", "")
        task2 == lifecycle_set_stage(task1, "planning", "done", "")
        staffing_status == IF snap.assignments > 0 THEN "done"
                           ELSE IF roles # <<>> THEN "running" ELSE "pending"
        task3 == lifecycle_set_stage(task2, "staffing", staffing_status, "")
        task4 == lifecycle_set_stage(task3, "execution", execution_status, "")
        task5 == lifecycle_set_stage(task4, "verification", ver.status, ver.note)
        task6 == lifecycle_set_stage(task5, "integration", integration_status, "")
        task7 == lifecycle_set_stage(task6, "close", close_status, "")
        overall ==
            IF close_status = "failed" \/ ver.status = "failed" \/ execution_status = "failed"
            THEN "failed"
            ELSE IF close_status = "done" THEN "completed"
            ELSE IF close_status = "running" \/ execution_status = "running"
                    \/ ver.status = "running" THEN "running"
            ELSE "pending"
        task8 == [task7 EXCEPT !.status = normalize_task_status(overall),
                               !.updated_at = t,
                               !.roles = roles,
                               !.verifier_roles = verifiers,
                               !.require_verifier = require_verifier,
                               !.result = [assignments |-> snap.assignments, replies |-> snap.replies,
                                           complete |-> snap.complete, done_roles |-> snap.done_roles,
                                           failed_roles |-> snap.failed_roles,
                                           pending_roles |-> snap.pending_roles]]
    IN  IF request_id = "" THEN tasks_in ELSE DictSet(tasks_in, request_id, task8)])])])])])])])

\* the usage counted over the tasks of every chat
summarize_usage_of_all_chats(tasks_in, chat_id, today) ==
    [running |-> Cardinality({r \in DOMAIN tasks_in :
                                normalize_task_status(tasks_in[r].status) \in {"pending", "running"}}),
     submitted_today |-> Cardinality({r \in DOMAIN tasks_in : tasks_in[r].created_at \div 86400 = today})]

summarize_chat_usage(tasks_in, chat_id, today) ==
    LET mine == {r \in DOMAIN tasks_in : tasks_in[r].initiator_chat_id = chat_id}
    IN  [running |-> Cardinality({r \in mine :
                                    normalize_task_status(tasks_in[r].status) \in {"pending", "running"}}),
         submitted_today |-> Cardinality({r \in mine : tasks_in[r].created_at \div 86400 = today})]

\* ---------------------------------------------------------------------------
\* aoe_tg_parse.py.  A message text is the sequence of its whitespace-separated
\* tokens; a free-text prompt is one token.
\* ---------------------------------------------------------------------------
RiskLabels == (RiskyPrompt :> "destructive_delete")

detect_high_risk_prompt(prompt) == DictGet(RiskLabels, prompt, "")

\* first token "/<name>[@bot]" -> lower-cased name
SlashTokens ==
    [x \in {"/lockme", "/onlyme", "/whoami", "/id", "/help", "/start", "/menu", "/acl",
            "/status", "/grant", "/revoke", "/mode", "/on", "/off", "/dispatch", "/direct",
            "/cancel", "/ok", "/retry", "/replan", "/check", "/task", "/pick", "/monitor",
            "/kpi", "/request", "/run", "/orch"} |->
        CASE x = "/lockme" -> "lockme" [] x = "/onlyme" -> "onlyme" [] x = "/whoami" -> "whoami"
          [] x = "/id" -> "id" [] x = "/help" -> "help" [] x = "/start" -> "start"
          [] x = "/menu" -> "menu" [] x = "/acl" -> "acl" [] x = "/status" -> "status"
          [] x = "/grant" -> "grant" [] x = "/revoke" -> "revoke" [] x = "/mode" -> "mode"
          [] x = "/on" -> "on" [] x = "/off" -> "off" [] x = "/dispatch" -> "dispatch"
          [] x = "/direct" -> "direct" [] x = "/cancel" -> "cancel" [] x = "/ok" -> "ok"
          [] x = "/retry" -> "retry" [] x = "/replan" -> "replan" [] x = "/check" -> "check"
          [] x = "/task" -> "task" [] x = "/pick" -> "pick" [] x = "/monitor" -> "monitor"
          [] x = "/kpi" -> "kpi" [] x = "/request" -> "request" [] x = "/run" -> "run"
          [] x = "/orch" -> "orch"]

\* parse_command: <<cmd, rest>>; cmd is "" for a text that does not start with "/"
parse_command(text) ==
    IF text # <<>> /\ text[1] \in DOMAIN SlashTokens
    THEN <<SlashTokens[text[1]], Tail(text)>>
    ELSE <<"", text>>

\* the string a token list stands for where the code reads it as one string
joined(rest) == IF rest = <<>> THEN "" ELSE rest[1]

MODE_ALIASES ==
    [status |-> "status", show |-> "status", current |-> "status", now |-> "status",
     dispatch |-> "dispatch", team |-> "dispatch", task |-> "dispatch", on |-> "dispatch",
     enable |-> "dispatch", enabled |-> "dispatch", start |-> "dispatch",
     direct |-> "direct", ask |-> "direct", question |-> "direct",
     off |-> "off", none |-> "off", disable |-> "off", clear |-> "off", stop |-> "off"]

normalize_mode_token(raw) == IF raw = "" THEN "status" ELSE DictGet(MODE_ALIASES, raw, "")

\* parse_quick_message on the texts of the model: the one-word and
\* "<word> <request>" forms; every other text (a prompt) gives None, modelled
\* by a record with cmd "".
QuickNone == [cmd |-> "", mode |-> "", request_id |-> "", prompt |-> "", force_mode |-> ""]

parse_quick_message(text) ==
    LET low == IF text = <<>> THEN "" ELSE text[1]
        tail == IF Len(text) >= 2 THEN text[2] ELSE ""
    IN  IF text = <<>> \/ low \in DOMAIN SlashTokens THEN QuickNone
        ELSE IF Len(text) = 1 /\ low \in {"help", "menu"} THEN [QuickNone EXCEPT !.cmd = "help"]
        ELSE IF Len(text) = 1 /\ low = "ok" THEN [QuickNone EXCEPT !.cmd = "confirm-run"]
        ELSE IF Len(text) = 1 /\ low = "mode" THEN [QuickNone EXCEPT !.cmd = "mode", !.mode = "status"]
        ELSE IF Len(text) = 1 /\ low \in {"inbox", "on"}
             THEN [QuickNone EXCEPT !.cmd = "mode", !.mode = "dispatch"]
        ELSE IF Len(text) = 1 /\ low = "off" THEN [QuickNone EXCEPT !.cmd = "mode", !.mode = "off"]
        ELSE IF Len(text) = 2 /\ low = "mode"
             THEN [QuickNone EXCEPT !.cmd = "mode",
                                    !.mode = IF normalize_mode_token(tail) # ""
                                             THEN normalize_mode_token(tail) ELSE "invalid"]
        ELSE IF Len(text) = 1 /\ low \in {"acl", "permissions", "permission"}
             THEN [QuickNone EXCEPT !.cmd = "acl"]
        ELSE IF Len(text) = 1 /\ low = "status" THEN [QuickNone EXCEPT !.cmd = "status"]
        ELSE IF Len(text) = 1 /\ low \in {"kpi", "metrics"} THEN [QuickNone EXCEPT !.cmd = "orch-kpi"]
        ELSE IF Len(text) = 1 /\ low \in {"monitor", "tasks"} THEN [QuickNone EXCEPT !.cmd = "orch-monitor"]
        ELSE IF Len(text) = 1 /\ low = "check" THEN [QuickNone EXCEPT !.cmd = "orch-check"]
        ELSE IF Len(text) = 2 /\ low = "check"
             THEN [QuickNone EXCEPT !.cmd = "orch-check", !.request_id = tail]
        ELSE IF Len(text) = 1 /\ low \in {"task", "lifecycle"} THEN [QuickNone EXCEPT !.cmd = "orch-task"]
        ELSE IF Len(text) = 2 /\ low = "task"
             THEN [QuickNone EXCEPT !.cmd = "orch-task", !.request_id = tail]
        ELSE IF Len(text) = 1 /\ low = "pick" THEN [QuickNone EXCEPT !.cmd = "orch-pick"]
        ELSE IF Len(text) = 2 /\ low = "pick"
             THEN [QuickNone EXCEPT !.cmd = "orch-pick", !.request_id = tail]
        ELSE IF Len(text) = 2 /\ low = "retry"
             THEN [QuickNone EXCEPT !.cmd = "orch-retry", !.request_id = tail]
        ELSE IF Len(text) = 2 /\ low = "replan"
             THEN [QuickNone EXCEPT !.cmd = "orch-replan", !.request_id = tail]
        ELSE IF Len(text) = 2 /\ low = "cancel"
             THEN [QuickNone EXCEPT !.cmd = "orch-cancel", !.request_id = tail]
        ELSE IF Len(text) = 1 /\ low = "cancel" THEN [QuickNone EXCEPT !.cmd = "cancel-pending"]
        ELSE IF Len(text) = 1 /\ low = "dispatch" THEN [QuickNone EXCEPT !.cmd = "quick-dispatch"]
        ELSE IF Len(text) = 1 /\ low = "direct" THEN [QuickNone EXCEPT !.cmd = "quick-direct"]
        ELSE IF Len(text) = 2 /\ low = "dispatch"
             THEN [QuickNone EXCEPT !.cmd = "run", !.prompt = tail, !.force_mode = "dispatch"]
        ELSE IF Len(text) = 2 /\ low = "direct"
             THEN [QuickNone EXCEPT !.cmd = "run", !.prompt = tail, !.force_mode = "direct"]
        ELSE QuickNone

\* parse_cli_message on the texts of the model ("aoe <cmd> ..."): the commands
\* help, status, acl, mode|on|off, ok, grant, revoke, cancel, retry, replan,
\* request, run, add-role and orch list|use|add.  A RuntimeError is the field
\* error; None is a record with cmd "" and no error.
CliNone ==
    [cmd |-> "", mode |-> "", request_id |-> "", prompt |-> "", force_mode |-> "",
     scope |-> "", chat_id |-> "", role |-> "", orch |-> "", path |-> "", error |-> ""]

CliError == [CliNone EXCEPT !.error = "usage:"]

parse_cli_run(argv) ==
    IF argv = <<>> THEN CliError
    ELSE IF argv[1] \in {"--direct", "--dispatch"}
    THEN IF Len(argv) # 2 THEN CliError
         ELSE [CliNone EXCEPT !.cmd = "run", !.prompt = argv[2],
                              !.force_mode = IF argv[1] = "--direct" THEN "direct" ELSE "dispatch"]
    ELSE [CliNone EXCEPT !.cmd = "run", !.prompt = argv[1]]

parse_cli_orch(argv) ==
    IF argv = <<>> THEN [CliNone EXCEPT !.cmd = "orch-help"]
    ELSE LET sub == argv[1]
             sub_argv == Tail(argv)
         IN  IF sub \in {"help", "h"} THEN [CliNone EXCEPT !.cmd = "orch-help"]
             ELSE IF sub \in {"list", "ls"} THEN [CliNone EXCEPT !.cmd = "orch-list"]
             ELSE IF sub \in {"use", "switch", "select"}
             THEN IF Len(sub_argv) # 1 THEN CliError
                  ELSE [CliNone EXCEPT !.cmd = "orch-use", !.orch = sub_argv[1]]
             ELSE IF sub \in {"add", "create"}
             THEN IF Len(sub_argv) = 3 /\ sub_argv[2] = "--path"
                  THEN [CliNone EXCEPT !.cmd = "orch-add", !.orch = sub_argv[1], !.path = sub_argv[3]]
                  ELSE CliError
             ELSE CliError

parse_cli_message(text) ==
    IF text = <<>> \/ text[1] \in DOMAIN SlashTokens THEN CliNone
    ELSE LET parts == IF text[1] \in {"aoe", "orch", "aoe-orch"} THEN Tail(text) ELSE text
             cmd == IF parts = <<>> THEN "" ELSE parts[1]
             argv == IF parts = <<>> THEN <<>> ELSE Tail(parts)
         IN  IF parts = <<>> THEN [CliNone EXCEPT !.cmd = "help"]
             ELSE IF cmd \in {"help", "status"} THEN [CliNone EXCEPT !.cmd = cmd]
             ELSE IF cmd \in {"acl", "auth", "permissions"}
             THEN IF argv # <<>> THEN CliError ELSE [CliNone EXCEPT !.cmd = "acl"]
             ELSE IF cmd \in {"mode", "inbox", "on", "off"}
             THEN LET token == IF cmd \in {"inbox", "on"} /\ argv = <<>> THEN "dispatch"
                               ELSE IF cmd = "off" /\ argv = <<>> THEN "off"
                               ELSE joined(argv)
                      normalized == normalize_mode_token(token)
                  IN  IF Len(argv) > 1 \/ normalized = "" THEN CliError
                      ELSE [CliNone EXCEPT !.cmd = "mode", !.mode = normalized]
             ELSE IF cmd \in {"ok", "confirm"}
             THEN IF argv # <<>> THEN CliError ELSE [CliNone EXCEPT !.cmd = "confirm-run"]
             ELSE IF cmd = "grant"
             THEN IF Len(argv) # 2 THEN CliError
                  ELSE IF normalize_acl_scope(argv[1]) \notin {"allow", "admin", "readonly"}
                          \/ ~is_valid_chat_id(argv[2]) THEN CliError
                  ELSE [CliNone EXCEPT !.cmd = "grant", !.scope = normalize_acl_scope(argv[1]),
                                       !.chat_id = argv[2]]
             ELSE IF cmd = "revoke"
             THEN IF Len(argv) # 2 THEN CliError
                  ELSE IF normalize_acl_scope(argv[1]) \notin {"allow", "admin", "readonly", "all"}
                          \/ ~is_valid_chat_id(argv[2]) THEN CliError
                  ELSE [CliNone EXCEPT !.cmd = "revoke", !.scope = normalize_acl_scope(argv[1]),
                                       !.chat_id = argv[2]]
             ELSE IF cmd = "cancel"
             THEN IF argv = <<>> THEN [CliNone EXCEPT !.cmd = "cancel-pending"]
                  ELSE IF Len(argv) = 1 THEN [CliNone EXCEPT !.cmd = "orch-cancel", !.request_id = argv[1]]
                  ELSE CliError
             ELSE IF cmd = "retry"
             THEN IF Len(argv) # 1 THEN CliError
                  ELSE [CliNone EXCEPT !.cmd = "orch-retry", !.request_id = argv[1]]
             ELSE IF cmd = "replan"
             THEN IF Len(argv) # 1 THEN CliError
                  ELSE [CliNone EXCEPT !.cmd = "orch-replan", !.request_id = argv[1]]
             ELSE IF cmd = "request"
             THEN IF Len(argv) # 1 THEN CliError
                  ELSE [CliNone EXCEPT !.cmd = "request", !.request_id = argv[1]]
             ELSE IF cmd = "run" THEN parse_cli_run(argv)
             ELSE IF cmd \in {"add-role", "addrole"}
             THEN IF Len(argv) # 1 THEN CliError
                  ELSE [CliNone EXCEPT !.cmd = "add-role", !.role = argv[1]]
             ELSE IF cmd = "orch" THEN parse_cli_orch(argv)
             ELSE CliNone

\* ---------------------------------------------------------------------------
\* Handling one message threads a context record through the pipeline:
\*   a        args (ACL sets and configuration), mutated by grant/revoke/lockme
\*   ms       manager_state in memory: [chat_sessions, tasks, last_request_id]
\*   disk     the manager state file
\*   replies  the context= labels of the messages sent, in order
\*   events   <<event, status, error_code>> rows logged, in order
\*   exec     the call made to the orchestrator, if any
\*   handler  the handler that consumed the command
\*   resolved the ResolvedCommand
\*   error    message of a raised exception, "" when none is pending
\*   done     the pipeline returned (terminal reply sent or command consumed)
\*   t        the clock reading every now_iso() of this message returns
\*   answer   what the orchestrator CLI answers if this message calls it:
\*            [ok, status, plan]; ok = FALSE is a non-zero exit, plan the
\*            planner's outcome ("error", "approved", "blockers")
\*   run_control_mode, run_source_request_id, run_roles_override
\*            RunTransitionState and the override a retry/replan sets
\* ---------------------------------------------------------------------------
NoExec == [kind |-> "none", prompt |-> "", mode |-> "", source |-> "", request_id |-> ""]

\* aoe_tg_command_resolver.py; Optional fields hold "" for None
ResolvedCommand ==
    [cmd |-> "", rest |-> <<>>, came_from_slash |-> FALSE,
     run_prompt |-> "", run_force_mode |-> "",
     add_role_name |-> "", orch_target |-> "", orch_add_name |-> "", orch_add_path |-> "",
     orch_check_request_id |-> "", orch_task_request_id |-> "", orch_pick_request_id |-> "",
     orch_cancel_request_id |-> "", orch_retry_request_id |-> "", orch_replan_request_id |-> "",
     mode_setting |-> "", acl_grant_scope |-> "", acl_grant_chat_id |-> "",
     acl_revoke_scope |-> "", acl_revoke_chat_id |-> "", run_auto_source |-> "", error |-> ""]

log_event(ctx, event, status, error_code) ==
    IF ctx.a.dry_run THEN ctx
    ELSE [ctx EXCEPT !.events = Append(@, <<event, status, error_code>>)]

\* a send that logs nothing
send_unlogged(ctx, context) == [ctx EXCEPT !.replies = Append(@, context)]

\* send: the message goes out (Telegram accepts it) and its send_message row
\* is logged
send(ctx, context) ==
    log_event([ctx EXCEPT !.replies = Append(@, context)], "send_message", "sent", "")

\* "if not args.dry_run: save_manager_state(...)"
save_manager_state(ctx) == IF ctx.a.dry_run THEN ctx ELSE [ctx EXCEPT !.disk = ctx.ms]

isdigit(token) == token \in {"1", "2", "12", "24"}

\* resolve_message_command, the slash mapping (lines 73-161)
resolve_slash_command(rc) ==
    LET slash_rest == rc.rest
        cmd == rc.cmd
    IN  IF cmd = "menu" THEN [rc EXCEPT !.cmd = "help"]
        ELSE IF cmd \in {"ok", "confirm"}
        THEN IF slash_rest # <<>> THEN [rc EXCEPT !.error = "usage:"]
             ELSE [rc EXCEPT !.cmd = "confirm-run"]
        ELSE IF cmd = "cancel"
        THEN IF slash_rest # <<>>
             THEN [rc EXCEPT !.cmd = "orch-cancel", !.orch_cancel_request_id = joined(slash_rest)]
             ELSE [rc EXCEPT !.cmd = "cancel-pending"]
        ELSE IF cmd \in {"id", "whoami"} THEN [rc EXCEPT !.cmd = "whoami"]
        ELSE IF cmd \in {"mode", "inbox", "on", "off"}
        THEN LET mode_arg == IF cmd \in {"inbox", "on"} /\ slash_rest = <<>> THEN "dispatch"
                             ELSE IF cmd = "off" /\ slash_rest = <<>> THEN "off"
                             ELSE joined(slash_rest)
                 mode_setting == IF Len(slash_rest) > 1 THEN "" ELSE normalize_mode_token(mode_arg)
             IN  IF mode_setting = "" THEN [rc EXCEPT !.cmd = "mode", !.error = "usage:"]
                 ELSE [rc EXCEPT !.cmd = "mode", !.mode_setting = mode_setting]
        ELSE IF cmd \in {"lockme", "onlyme"} THEN [rc EXCEPT !.cmd = "lockme"]
        ELSE IF cmd \in {"acl", "auth", "permission", "permissions"} THEN [rc EXCEPT !.cmd = "acl"]
        ELSE IF cmd = "grant"
        THEN LET parsed == parse_acl_command_args(slash_rest)
             IN  IF parsed = <<>> THEN [rc EXCEPT !.error = "usage:"]
                 ELSE [rc EXCEPT !.acl_grant_scope = parsed[1], !.acl_grant_chat_id = parsed[2]]
        ELSE IF cmd = "revoke"
        THEN LET parsed == parse_acl_revoke_args(slash_rest)
             IN  IF parsed = <<>> THEN [rc EXCEPT !.error = "usage:"]
                 ELSE [rc EXCEPT !.acl_revoke_scope = parsed[1], !.acl_revoke_chat_id = parsed[2]]
        ELSE IF cmd = "retry"
        THEN [rc EXCEPT !.cmd = "orch-retry", !.orch_retry_request_id = joined(slash_rest)]
        ELSE IF cmd = "replan"
        THEN [rc EXCEPT !.cmd = "orch-replan", !.orch_replan_request_id = joined(slash_rest)]
        ELSE IF cmd \in {"monitor", "tasks", "board"}
        THEN [rc EXCEPT !.cmd = "orch-monitor",
                         !.orch_target = IF slash_rest # <<>> /\ ~isdigit(slash_rest[1])
                                         THEN slash_rest[1] ELSE @]
        ELSE IF cmd \in {"check", "progress"}
        THEN [rc EXCEPT !.cmd = "orch-check", !.orch_check_request_id = joined(slash_rest)]
        ELSE IF cmd \in {"kpi", "metrics"}
        THEN [rc EXCEPT !.cmd = "orch-kpi",
                         !.orch_target = IF slash_rest # <<>> /\ ~isdigit(slash_rest[1])
                                         THEN slash_rest[1] ELSE @]
        ELSE IF cmd \in {"task", "lifecycle"}
        THEN [rc EXCEPT !.cmd = "orch-task", !.orch_task_request_id = joined(slash_rest)]
        ELSE IF cmd \in {"pick", "select"}
        THEN [rc EXCEPT !.cmd = "orch-pick", !.orch_pick_request_id = joined(slash_rest)]
        ELSE IF cmd \in {"dispatch", "team"}
        THEN IF slash_rest # <<>>
             THEN [rc EXCEPT !.cmd = "run", !.run_force_mode = "dispatch",
                              !.run_prompt = joined(slash_rest)]
             ELSE [rc EXCEPT !.cmd = "quick-dispatch"]
        ELSE IF cmd \in {"direct", "ask", "question"}
        THEN IF slash_rest # <<>>
             THEN [rc EXCEPT !.cmd = "run", !.run_force_mode = "direct",
                              !.run_prompt = joined(slash_rest)]
             ELSE [rc EXCEPT !.cmd = "quick-direct"]
        ELSE rc

\* the request-id field a quick / CLI / natural result fills for its command
with_request_id(rc, cmd, request_id) ==
    IF cmd = "orch-check" THEN [rc EXCEPT !.orch_check_request_id = request_id]
    ELSE IF cmd = "orch-task" THEN [rc EXCEPT !.orch_task_request_id = request_id]
    ELSE IF cmd = "orch-pick" THEN [rc EXCEPT !.orch_pick_request_id = request_id]
    ELSE IF cmd = "orch-cancel" THEN [rc EXCEPT !.orch_cancel_request_id = request_id]
    ELSE IF cmd = "orch-retry" THEN [rc EXCEPT !.orch_retry_request_id = request_id]
    ELSE IF cmd = "orch-replan" THEN [rc EXCEPT !.orch_replan_request_id = request_id]
    ELSE rc

\* resolve_message_command, lines 163-205
apply_quick(rc, quick) ==
    LET r1 == [rc EXCEPT !.cmd = quick.cmd]
    IN  IF quick.cmd = "" THEN rc
        ELSE IF quick.cmd \in {"run", "orch-run"}
        THEN [r1 EXCEPT !.run_prompt = quick.prompt, !.run_force_mode = quick.force_mode]
        ELSE IF quick.cmd = "mode"
        THEN [r1 EXCEPT !.mode_setting = IF quick.mode \in {"status", "dispatch", "direct", "off"}
                                         THEN quick.mode ELSE "invalid"]
        ELSE with_request_id(r1, quick.cmd, quick.request_id)

\* the CLI parser's result dropped
cli_ignored(rc, cli) == rc

\* resolve_message_command, lines 207-267
apply_cli(rc, cli) ==
    LET r1 == [rc EXCEPT !.cmd = cli.cmd]
    IN  IF cli.error # "" THEN [rc EXCEPT !.error = cli.error]
        ELSE IF cli.cmd = "" THEN rc
        ELSE IF cli.cmd = "request" THEN [r1 EXCEPT !.rest = <<cli.request_id>>]
        ELSE IF cli.cmd \in {"run", "orch-run"}
        THEN [r1 EXCEPT !.run_prompt = cli.prompt, !.run_force_mode = cli.force_mode,
                        !.orch_target = cli.orch]
        ELSE IF cli.cmd = "add-role" THEN [r1 EXCEPT !.add_role_name = cli.role]
        ELSE IF cli.cmd \in {"orch-use", "orch-status"} THEN [r1 EXCEPT !.orch_target = cli.orch]
        ELSE IF cli.cmd = "orch-add"
        THEN [r1 EXCEPT !.orch_add_name = cli.orch, !.orch_add_path = cli.path]
        ELSE IF cli.cmd = "mode"
        THEN [r1 EXCEPT !.mode_setting = IF cli.mode \in {"status", "dispatch", "direct", "off"}
                                         THEN cli.mode ELSE ""]
        ELSE IF cli.cmd = "grant"
        THEN [r1 EXCEPT !.acl_grant_scope = cli.scope, !.acl_grant_chat_id = cli.chat_id]
        ELSE IF cli.cmd = "revoke"
        THEN [r1 EXCEPT !.acl_revoke_scope = cli.scope, !.acl_revoke_chat_id = cli.chat_id]
        ELSE with_request_id(r1, cli.cmd, cli.request_id)

NATURAL_SAFE_CMDS ==
    {"help", "confirm-run", "mode", "acl", "status", "orch-kpi", "orch-monitor", "orch-check",
     "orch-task", "orch-pick", "orch-cancel", "orch-retry", "orch-replan", "cancel-pending"}

\* resolve_message_command, lines 287-327
apply_natural(rc, natural) ==
    LET r1 == [rc EXCEPT !.cmd = natural.cmd]
    IN  IF natural.cmd \notin NATURAL_SAFE_CMDS THEN rc
        ELSE IF natural.cmd = "mode"
        THEN [r1 EXCEPT !.mode_setting = IF natural.mode \in {"status", "dispatch", "direct", "off"}
                                         THEN natural.mode ELSE "invalid"]
        ELSE with_request_id(r1, natural.cmd, natural.request_id)

resolve_message_command(ctx, text, chat_id) ==
    Let([parsed \in {parse_command(text)} |->
    Let([rc0 \in {[ResolvedCommand EXCEPT !.cmd = parsed[1], !.rest = parsed[2],
                                !.came_from_slash = parsed[1] # ""]} |->
    Let([rc1 \in {IF rc0.cmd # "" THEN resolve_slash_command(rc0) ELSE rc0} |->
    Let([rc2 \in {IF rc1.error = "" /\ rc1.cmd = "" /\ ~ctx.a.slash_only
        THEN apply_quick(rc1, parse_quick_message(text)) ELSE rc1} |->
    Let([rc3 \in {IF rc2.error = "" /\ rc2.cmd = "" /\ ~ctx.a.slash_only
        THEN apply_cli(rc2, parse_cli_message(text)) ELSE rc2} |->
    Let([pending_mode \in {get_pending_mode(ctx.ms.chat_sessions, chat_id)} |->
    Let([default_mode \in {get_default_mode(ctx.ms.chat_sessions, chat_id)} |->
    Let([pending_prompt \in {joined(text)} |->
    Let([route_pending \in {(rc3.error = "" /\ rc3.cmd = "" /\ pending_mode \in Modes /\ pending_prompt # "")} |->
    Let([route_default \in {(rc3.error = "" /\ rc3.cmd = "" /\ ~route_pending /\ pending_prompt # ""
            /\ default_mode \in Modes)} |->
    Let([rc4 \in {IF route_pending
        THEN [rc3 EXCEPT !.cmd = "run", !.run_prompt = pending_prompt,
                         !.run_force_mode = pending_mode, !.run_auto_source = "pending"]
        ELSE IF route_default
        THEN [rc3 EXCEPT !.cmd = "run", !.run_prompt = pending_prompt,
                         !.run_force_mode = default_mode, !.run_auto_source = "default"]
        ELSE rc3} |->
    Let([rc5 \in {IF rc4.error = "" /\ rc4.cmd = "" /\ ctx.a.slash_only
        THEN apply_natural(rc4, parse_quick_message(text)) ELSE rc4} |->
    LET ctx1 == IF route_pending
                THEN save_manager_state(
                         [ctx EXCEPT !.ms.chat_sessions = clear_pending_mode(@, chat_id)])
                ELSE ctx
    IN  [ctx1 EXCEPT !.resolved = rc5, !.error = rc5.error]])])])])])])])])])])])])

\* ---------------------------------------------------------------------------
\* aoe-telegram-gateway.py: error classification
\* ---------------------------------------------------------------------------
ERROR_COMMAND == "E_COMMAND"
ERROR_AUTH == "E_AUTH"
ERROR_GATE == "E_GATE"
ERROR_REQUEST == "E_REQUEST"
ERROR_ORCH == "E_ORCH"
ERROR_INTERNAL == "E_INTERNAL"

\* err is the text of the exception; the model raises only these texts
classify_handler_error(err) ==
    IF err \in {"usage:", "unknown orch project"} THEN ERROR_COMMAND
    ELSE IF err = "aoe-team request failed" THEN ERROR_REQUEST
    ELSE IF err \in {"aoe-orch run failed", "aoe-orch add-role failed"} THEN ERROR_ORCH
    ELSE ERROR_INTERNAL

raise(ctx, err) == [ctx EXCEPT !.error = err]

\* a stage runs only while the pipeline has neither returned nor raised
live(ctx) == ~ctx.done /\ ctx.error = ""

\* ---------------------------------------------------------------------------
\* aoe_tg_message_flow.py
\* ---------------------------------------------------------------------------
auth_deny(ctx) ==
    [log_event(send(ctx, "auth-deny"), "auth_denied", "rejected", ERROR_AUTH) EXCEPT !.done = TRUE]

\* mutant: no command is denied for the role of its chat
no_command_auth(ctx, cmd_key, chat_role, chat_id) == ctx

enforce_command_auth(ctx, cmd_key, chat_role, chat_id) ==
    LET a == ctx.a
        first == IF chat_role = "unknown"
                 THEN cmd_key \notin {"start", "help", "whoami", "lockme"}
                 ELSE IF cmd_key = "lockme"
                 THEN a.allow_chat_ids # {} /\ chat_role \notin {"admin", "owner"}
                 ELSE FALSE
        second == IF cmd_key \in {"lockme", "grant", "revoke"} /\ a.owner_chat_id # ""
                  THEN ~is_owner_chat(chat_id, a)
                  ELSE IF chat_role = "readonly"
                  THEN cmd_key \notin READONLY_ALLOWED_COMMANDS
                  ELSE FALSE
    IN  IF first \/ second THEN auth_deny(ctx) ELSE ctx

\* ---------------------------------------------------------------------------
\* aoe_tg_run_handlers.py: resolve_confirm_run_transition, with
\* apply_confirm_transition_to_resolved applied to ctx.resolved
\* ---------------------------------------------------------------------------
Max(x, y) == IF x >= y THEN x ELSE y

MIN_CONFIRM_TTL_SEC == 30

\* mutant: a confirmation request never expires
confirm_never_expired(a, confirm, t) == FALSE

\* lines 875-880: the request is expired once it is older than the TTL, which
\* is the option raised to at least MIN_CONFIRM_TTL_SEC
confirm_expired(a, confirm, t) ==
    LET ttl_sec == Max(MIN_CONFIRM_TTL_SEC, a.confirm_ttl_sec)
    IN  (t - confirm.requested_at) > ttl_sec

resolve_confirm_run_transition(ctx, chat_id, t) ==
    LET s == ctx.ms.chat_sessions
        confirm == get_confirm_action(s, chat_id)
        expired == confirm_expired(ctx.a, confirm, t)
        cleared == save_manager_state([ctx EXCEPT !.ms.chat_sessions = clear_confirm_action(s, chat_id)])
    IN  IF ctx.resolved.cmd # "confirm-run" THEN ctx
        ELSE IF confirm = EmptyDict
        THEN [send(ctx, "confirm-empty") EXCEPT !.done = TRUE]
        ELSE IF expired
        THEN [send(cleared, "confirm-expired") EXCEPT !.done = TRUE]
        ELSE [cleared EXCEPT !.resolved.cmd = "run",
                             !.resolved.run_prompt = confirm.prompt,
                             !.resolved.run_force_mode = confirm.mode,
                             !.resolved.orch_target = IF confirm.orch # "" THEN confirm.orch ELSE @,
                             !.resolved.run_auto_source = "confirmed"]

\* ---------------------------------------------------------------------------
\* aoe_tg_management_handlers.py: handle_management_command, one operator per
\* command branch.  Chat references are chat-ids (aliases are not modelled),
\* so resolve_chat_ref returns the reference itself.
\* ---------------------------------------------------------------------------
consumed(ctx, handler) == [ctx EXCEPT !.done = TRUE, !.handler = handler]

management_mode(ctx, chat_id, chat_role) ==
    LET s == ctx.ms.chat_sessions
        requested_mode == IF ctx.resolved.mode_setting = "" THEN "status" ELSE ctx.resolved.mode_setting
        off == clear_confirm_action(clear_pending_mode(clear_default_mode(s, chat_id), chat_id), chat_id)
    IN  IF requested_mode \notin {"status", "dispatch", "direct", "off"}
        THEN raise([ctx EXCEPT !.handler = "management"], "usage:")
        ELSE IF requested_mode = "status" THEN consumed(send(ctx, "mode-status"), "management")
        ELSE IF chat_role = "readonly" THEN consumed(send(ctx, "mode-deny"), "management")
        ELSE IF requested_mode = "off"
        THEN consumed(send(save_manager_state([ctx EXCEPT !.ms.chat_sessions = off]), "mode-off"),
                      "management")
        ELSE consumed(send(save_manager_state(
                               [ctx EXCEPT !.ms.chat_sessions = set_default_mode(s, chat_id, requested_mode)]),
                           "mode-set"),
                      "management")

management_quick(ctx, chat_id, mode) ==
    consumed(send(save_manager_state(
                      [ctx EXCEPT !.ms.chat_sessions = set_pending_mode(@, chat_id, mode)]),
                  IF mode = "dispatch" THEN "quick-dispatch" ELSE "quick-direct"),
             "management")

\* the cancel that drops the pending mode and leaves the confirmation request
cancel_pending_keeps_confirm(ctx, chat_id) ==
    consumed(send(save_manager_state(
                      [ctx EXCEPT !.ms.chat_sessions = clear_pending_mode(@, chat_id)]),
                  "cancel-pending"),
             "management")

management_cancel_pending(ctx, chat_id) ==
    consumed(send(save_manager_state(
                      [ctx EXCEPT !.ms.chat_sessions =
                                      clear_confirm_action(clear_pending_mode(@, chat_id), chat_id)]),
                  "cancel-pending"),
             "management")

\* the readonly set left by grant and revoke (lines 232-234 and 308-310)
readonly_without(readonly_chat_ids, admin_chat_ids, allow_chat_ids) ==
    {x \in readonly_chat_ids : x \notin admin_chat_ids /\ x \notin allow_chat_ids}

management_grant(ctx, chat_id) ==
    LET a == ctx.a
        scope == ctx.resolved.acl_grant_scope
        target_chat_id == ctx.resolved.acl_grant_chat_id
        allow1 == IF scope = "allow" THEN a.allow_chat_ids \cup {target_chat_id}
                  ELSE IF scope = "readonly" THEN a.allow_chat_ids \ {target_chat_id}
                  ELSE a.allow_chat_ids
        admin1 == IF scope = "admin" THEN a.admin_chat_ids \cup {target_chat_id}
                  ELSE IF scope = "readonly" THEN a.admin_chat_ids \ {target_chat_id}
                  ELSE a.admin_chat_ids
        readonly1 == IF scope = "readonly" THEN a.readonly_chat_ids \cup {target_chat_id}
                     ELSE a.readonly_chat_ids \ {target_chat_id}
        ctx1 == [ctx EXCEPT !.a.allow_chat_ids = allow1, !.a.admin_chat_ids = admin1,
                            !.a.readonly_chat_ids = readonly_without(readonly1, admin1, allow1)]
    IN  IF scope = "" \/ target_chat_id = "" \/ scope \notin {"allow", "admin", "readonly"}
        THEN raise([ctx EXCEPT !.handler = "management"], "usage:")
        ELSE consumed(send(log_event(ctx1, "acl_update", "completed", ""), "grant"), "management")

\* mutant: a self-revoke is never blocked
self_revoke_allowed(a, chat_id, target_chat_id, next_allow, next_admin, next_readonly) == FALSE

\* lines 289-297: the self-revoke guard
self_revoke_blocked(a, chat_id, target_chat_id, next_allow, next_admin, next_readonly) ==
    /\ a.deny_by_default /\ target_chat_id = chat_id /\ ~is_owner_chat(chat_id, a)
    /\ resolve_role_from_acl_sets(chat_id, next_allow, next_admin, next_readonly, TRUE) # "admin"

management_revoke(ctx, chat_id) ==
    LET a == ctx.a
        scope == ctx.resolved.acl_revoke_scope
        target_chat_id == ctx.resolved.acl_revoke_chat_id
        next_allow == IF scope \in {"allow", "all"} THEN a.allow_chat_ids \ {target_chat_id}
                      ELSE a.allow_chat_ids
        next_admin == IF scope \in {"admin", "all"} THEN a.admin_chat_ids \ {target_chat_id}
                      ELSE a.admin_chat_ids
        next_readonly == IF scope \in {"readonly", "all"} THEN a.readonly_chat_ids \ {target_chat_id}
                         ELSE a.readonly_chat_ids
        ctx1 == [ctx EXCEPT !.a.allow_chat_ids = next_allow, !.a.admin_chat_ids = next_admin,
                            !.a.readonly_chat_ids = readonly_without(next_readonly, next_admin, next_allow)]
    IN  IF scope = "" \/ target_chat_id = "" \/ scope \notin {"allow", "admin", "readonly", "all"}
        THEN raise([ctx EXCEPT !.handler = "management"], "usage:")
        ELSE IF self_revoke_blocked(a, chat_id, target_chat_id, next_allow, next_admin, next_readonly)
        THEN consumed(send(ctx, "revoke-guard"), "management")
        ELSE consumed(send(log_event(ctx1, "acl_update", "completed", ""), "revoke"), "management")

\* the owner recorded, the ACL sets left as they were
lockme_owner_only(ctx, chat_id) ==
    consumed(send(log_event([ctx EXCEPT !.a.owner_chat_id = chat_id],
                            "allowlist_update", "completed", ""), "lockme"), "management")

management_lockme(ctx, chat_id) ==
    LET ctx1 == [ctx EXCEPT !.a.allow_chat_ids = {chat_id}, !.a.admin_chat_ids = {},
                            !.a.readonly_chat_ids = {}, !.a.owner_chat_id = chat_id]
    IN  consumed(send(log_event(ctx1, "allowlist_update", "completed", ""), "lockme"), "management")

handle_management_command(ctx, chat_id, chat_role) ==
    LET cmd == ctx.resolved.cmd
    IN  IF cmd = "mode" THEN management_mode(ctx, chat_id, chat_role)
        ELSE IF cmd = "quick-dispatch" THEN management_quick(ctx, chat_id, "dispatch")
        ELSE IF cmd = "quick-direct" THEN management_quick(ctx, chat_id, "direct")
        ELSE IF cmd = "cancel-pending" THEN management_cancel_pending(ctx, chat_id)
        ELSE IF cmd = "whoami" THEN consumed(send(ctx, "whoami"), "management")
        ELSE IF cmd = "acl" THEN consumed(send(ctx, "acl"), "management")
        ELSE IF cmd = "grant" THEN management_grant(ctx, chat_id)
        ELSE IF cmd = "revoke" THEN management_revoke(ctx, chat_id)
        ELSE IF cmd = "lockme" THEN management_lockme(ctx, chat_id)
        ELSE IF cmd \in {"start", "help", "orch-help"} THEN consumed(send(ctx, "help"), "management")
        ELSE ctx

\* ---------------------------------------------------------------------------
\* The orchestrator CLIs (aoe-orch, aoe-team) as seen by the gateway.  A
\* request's JSON answer lists the request's roles, all in answer.status.
\* ---------------------------------------------------------------------------
AnswerStatuses == {"running", "done", "failed"}

PlanOutcomes == {"error", "approved", "blockers"}

Answers ==
    {[ok |-> FALSE, status |-> "failed", plan |-> "error"]}
        \cup [ok : {TRUE}, status : AnswerStatuses, plan : PlanOutcomes]

request_data(request_id, roles, answer) ==
    [request_id |-> request_id,
     role_states |-> [i \in 1..Len(roles) |-> [role |-> roles[i], status |-> answer.status]],
     complete |-> answer.status = "done",
     replies |-> IF answer.status = "done" THEN Len(roles) ELSE 0]

\* run_request_query: the answer for a request the project may or may not know
run_request_query(ctx, req_id) ==
    request_data(req_id,
                 IF req_id \in DOMAIN ctx.ms.tasks THEN ctx.ms.tasks[req_id].roles ELSE <<>>,
                 ctx.answer)

\* get_context / get_manager_project: "default" is the only registered project
ProjectKey == "default"

known_project(orch_target) == orch_target \in {"", ProjectKey}

int(token) ==
    CASE token = "1" -> 1 [] token = "2" -> 2 [] token = "12" -> 12 [] token = "24" -> 24
      [] OTHER -> 0

resolve_chat_task_ref(s, chat_id, raw_ref) ==
    LET refs == get_chat_recent_task_refs(s, chat_id)
    IN  IF raw_ref = "" THEN ""
        ELSE IF isdigit(raw_ref) /\ 1 <= int(raw_ref) /\ int(raw_ref) <= Len(refs)
        THEN refs[int(raw_ref)]
        ELSE raw_ref

\* task aliases and short ids are not modelled: a token names itself
resolve_task_request_id(tasks_in, request_or_alias) == request_or_alias

\* get_task_record: <<>> for None
get_task_record(tasks_in, request_id) == DictGet(tasks_in, request_id, <<>>)

\* request ids present in RequestIds order, the insertion order of the tasks dict
RECURSIVE ids_in_order(_, _)
ids_in_order(tasks_in, i) ==
    IF i > Len(RequestIds) THEN <<>>
    ELSE (IF RequestIds[i] \in DOMAIN tasks_in THEN <<RequestIds[i]>> ELSE <<>>)
         \o ids_in_order(tasks_in, i + 1)

\* stable sort by updated_at, most recent first
RECURSIVE sort_recent(_, _)
sort_recent(tasks_in, ids) ==
    IF ids = <<>> THEN <<>>
    ELSE LET best == CHOOSE i \in 1..Len(ids) :
                         /\ \A j \in 1..Len(ids) :
                                tasks_in[ids[j]].updated_at <= tasks_in[ids[i]].updated_at
                         /\ \A j \in 1..(i - 1) :
                                tasks_in[ids[j]].updated_at < tasks_in[ids[i]].updated_at
         IN  <<ids[best]>> \o sort_recent(tasks_in, SelectSeq(ids, LAMBDA x : x # ids[best]))

latest_task_request_refs(tasks_in) == sort_recent(tasks_in, ids_in_order(tasks_in, 1))

\* touch_chat_recent_task_ref followed by set_chat_selected_task_ref
remember_task(ctx, chat_id, req_id) ==
    [ctx EXCEPT !.ms.chat_sessions =
                    set_chat_selected_task_ref(touch_chat_recent_task_ref(@, chat_id, req_id),
                                               chat_id, req_id)]

\* sync_task_lifecycle as the query handlers call it (prompt="", mode="dispatch")
sync_from_query(ctx, data) ==
    [ctx EXCEPT !.ms.tasks = sync_task_lifecycle(@, data, "", "dispatch", <<>>, <<>>,
                                                 ctx.a.require_verifier,
                                                 resolve_verifier_candidates(ctx.a.verifier_roles),
                                                 ctx.t)]

\* ---------------------------------------------------------------------------
\* aoe_tg_orch_overview_handlers.py
\* ---------------------------------------------------------------------------
overview_monitor(ctx, chat_id) ==
    LET recent_refs == latest_task_request_refs(ctx.ms.tasks)
        s1 == set_chat_recent_task_refs(ctx.ms.chat_sessions, chat_id, recent_refs)
        s2 == IF get_chat_selected_task_ref(s1, chat_id) = "" /\ recent_refs # <<>>
              THEN set_chat_selected_task_ref(s1, chat_id, recent_refs[1]) ELSE s1
    IN  IF ~known_project(ctx.resolved.orch_target)
        THEN raise([ctx EXCEPT !.handler = "overview"], "unknown orch project")
        ELSE consumed(send(save_manager_state([ctx EXCEPT !.ms.chat_sessions = s2]), "orch-monitor"),
                      "overview")

handle_orch_overview_command(ctx, chat_id) ==
    LET cmd == ctx.resolved.cmd
        orch_target == ctx.resolved.orch_target
    IN  IF cmd = "orch-list" THEN consumed(send(ctx, "orch-list"), "overview")
        ELSE IF cmd = "orch-monitor" THEN overview_monitor(ctx, chat_id)
        ELSE IF cmd = "orch-kpi"
        THEN IF ~known_project(orch_target)
             THEN raise([ctx EXCEPT !.handler = "overview"], "unknown orch project")
             ELSE consumed(send(ctx, "orch-kpi"), "overview")
        ELSE IF cmd = "orch-use"
        THEN IF orch_target = "" THEN consumed(send(ctx, "orch-use usage"), "overview")
             ELSE IF ~known_project(orch_target)
             THEN raise([ctx EXCEPT !.handler = "overview"], "unknown orch project")
             ELSE consumed(send(save_manager_state(ctx), "orch-use"), "overview")
        ELSE ctx

\* ---------------------------------------------------------------------------
\* aoe_tg_orch_task_handlers.py
\* ---------------------------------------------------------------------------
\* "explicit or selected ref or last_request_id", then the two resolvers
default_request_id(ctx, chat_id, explicit) ==
    LET s == ctx.ms.chat_sessions
        selected == get_chat_selected_task_ref(s, chat_id)
        req_ref == IF explicit # "" THEN explicit
                   ELSE IF selected # "" THEN selected
                   ELSE ctx.ms.last_request_id
    IN  resolve_task_request_id(ctx.ms.tasks, resolve_chat_task_ref(s, chat_id, req_ref))

\* model paths lie outside args.workspace_root, which is always set
orch_task_add(ctx) ==
    IF ctx.resolved.orch_add_name = "" \/ ctx.resolved.orch_add_path = ""
    THEN consumed(send(ctx, "orch-add usage"), "orch-task")
    ELSE consumed(send(ctx, "orch-add path"), "orch-task")

orch_task_request(ctx, chat_id) ==
    LET req_id == resolve_task_request_id(
                      ctx.ms.tasks,
                      resolve_chat_task_ref(ctx.ms.chat_sessions, chat_id, joined(ctx.resolved.rest)))
        data == run_request_query(ctx, req_id)
        ctx1 == sync_from_query([ctx EXCEPT !.ms.last_request_id = req_id], data)
    IN  IF ctx.resolved.rest = <<>> THEN consumed(send(ctx, "request usage"), "orch-task")
        ELSE IF ~ctx.answer.ok THEN raise([ctx EXCEPT !.handler = "orch-task"], "aoe-team request failed")
        ELSE consumed(send(save_manager_state(remember_task(ctx1, chat_id, req_id)), "request"),
                      "orch-task")

orch_task_check(ctx, chat_id) ==
    LET req_id == default_request_id(ctx, chat_id, ctx.resolved.orch_check_request_id)
        data == run_request_query(ctx, req_id)
        ctx1 == sync_from_query([ctx EXCEPT !.ms.last_request_id = req_id], data)
    IN  IF ~known_project(ctx.resolved.orch_target)
        THEN raise([ctx EXCEPT !.handler = "orch-task"], "unknown orch project")
        ELSE IF req_id = "" THEN consumed(send(ctx, "orch-check usage"), "orch-task")
        ELSE IF ~ctx.answer.ok THEN raise([ctx EXCEPT !.handler = "orch-task"], "aoe-team request failed")
        ELSE consumed(send(save_manager_state(remember_task(ctx1, chat_id, req_id)), "orch-check"),
                      "orch-task")

orch_task_task(ctx, chat_id) ==
    LET req_id == default_request_id(ctx, chat_id, ctx.resolved.orch_task_request_id)
        known == get_task_record(ctx.ms.tasks, req_id) # <<>>
        ctx1 == IF known THEN ctx
                ELSE sync_from_query(ctx, run_request_query(ctx, req_id))
        ctx2 == IF known THEN ctx ELSE [ctx1 EXCEPT !.ms.last_request_id = req_id]
    IN  IF ~known_project(ctx.resolved.orch_target)
        THEN raise([ctx EXCEPT !.handler = "orch-task"], "unknown orch project")
        ELSE IF req_id = "" THEN consumed(send(ctx, "orch-task usage"), "orch-task")
        ELSE IF ~known /\ ~ctx.answer.ok THEN consumed(send(ctx, "orch-task missing"), "orch-task")
        ELSE consumed(send(save_manager_state(remember_task(ctx2, chat_id, req_id)), "orch-task"),
                      "orch-task")

orch_task_pick(ctx, chat_id) ==
    LET req_ref == ctx.resolved.orch_pick_request_id
        req_id == resolve_task_request_id(
                      ctx.ms.tasks, resolve_chat_task_ref(ctx.ms.chat_sessions, chat_id, req_ref))
        s1 == touch_chat_recent_task_ref(
                  set_chat_selected_task_ref(ctx.ms.chat_sessions, chat_id, req_id), chat_id, req_id)
    IN  IF ~known_project(ctx.resolved.orch_target)
        THEN raise([ctx EXCEPT !.handler = "orch-task"], "unknown orch project")
        ELSE IF req_ref = "" THEN consumed(send(ctx, "orch-pick usage"), "orch-task")
        ELSE consumed(send(save_manager_state([ctx EXCEPT !.ms.chat_sessions = s1]), "orch-pick"),
                      "orch-task")

\* the four stages a cancel marks failed, each with the cancel note
cancel_task(task, note, t) ==
    LET t1 == lifecycle_set_stage(task, "execution", "failed", note)
        t2 == lifecycle_set_stage(t1, "verification", "failed", note)
        t3 == lifecycle_set_stage(t2, "integration", "failed", note)
        t4 == lifecycle_set_stage(t3, "close", "failed", note)
    IN  [t4 EXCEPT !.status = "failed", !.canceled = TRUE, !.updated_at = t]

orch_task_cancel(ctx, chat_id) ==
    LET req_id == default_request_id(ctx, chat_id, ctx.resolved.orch_cancel_request_id)
        data == run_request_query(ctx, req_id)
        ctx1 == sync_from_query([ctx EXCEPT !.ms.last_request_id = req_id], data)
        ctx2 == [ctx1 EXCEPT !.ms.tasks[req_id] = cancel_task(@, "canceled by telegram", ctx.t),
                             !.exec = [NoExec EXCEPT !.kind = "cancel", !.request_id = req_id]]
        ctx3 == save_manager_state(remember_task(ctx2, chat_id, req_id))
    IN  IF ~known_project(ctx.resolved.orch_target)
        THEN raise([ctx EXCEPT !.handler = "orch-task"], "unknown orch project")
        ELSE IF req_id = "" THEN consumed(send(ctx, "orch-cancel usage"), "orch-task")
        ELSE IF ~ctx.answer.ok THEN raise([ctx EXCEPT !.handler = "orch-task"], "aoe-team request failed")
        ELSE consumed(log_event(send(ctx3, "orch-cancel"), "dispatch_canceled", "failed", ""),
                      "orch-task")

handle_orch_task_command(ctx, chat_id) ==
    LET cmd == ctx.resolved.cmd
    IN  IF cmd = "orch-add" THEN orch_task_add(ctx)
        ELSE IF cmd \in {"status", "orch-status"}
        THEN IF ~known_project(ctx.resolved.orch_target)
             THEN raise([ctx EXCEPT !.handler = "orch-task"], "unknown orch project")
             ELSE consumed(send(ctx, "status"), "orch-task")
        ELSE IF cmd = "request" THEN orch_task_request(ctx, chat_id)
        ELSE IF cmd = "orch-check" THEN orch_task_check(ctx, chat_id)
        ELSE IF cmd = "orch-task" THEN orch_task_task(ctx, chat_id)
        ELSE IF cmd = "orch-pick" THEN orch_task_pick(ctx, chat_id)
        ELSE IF cmd = "orch-cancel" THEN orch_task_cancel(ctx, chat_id)
        ELSE ctx

\* ---------------------------------------------------------------------------
\* aoe_tg_role_handlers.py
\* ---------------------------------------------------------------------------
handle_add_role_command(ctx) ==
    IF ctx.resolved.cmd # "add-role" THEN ctx
    ELSE IF ctx.resolved.add_role_name = "" THEN consumed(send(ctx, "add-role usage"), "add-role")
    ELSE IF ctx.a.dry_run THEN consumed(send(ctx, "add-role dry-run"), "add-role")
    ELSE IF ~ctx.answer.ok THEN raise([ctx EXCEPT !.handler = "add-role"], "aoe-orch add-role failed")
    ELSE consumed(send([ctx EXCEPT !.exec = [NoExec EXCEPT !.kind = "add-role"]], "add-role"),
                  "add-role")

\* ---------------------------------------------------------------------------
\* aoe_tg_retry_handlers.py: resolve_retry_replan_transition, with
\* apply_retry_transition_to_resolved applied to ctx.resolved
\* ---------------------------------------------------------------------------
resolve_retry_replan_transition(ctx, chat_id) ==
    IF ctx.resolved.cmd \notin {"orch-retry", "orch-replan"} THEN ctx
    ELSE IF ~known_project(ctx.resolved.orch_target)
    THEN raise([ctx EXCEPT !.handler = "retry"], "unknown orch project")
    ELSE
    Let([cmd \in {ctx.resolved.cmd} |->
    Let([explicit \in {IF cmd = "orch-retry" THEN ctx.resolved.orch_retry_request_id
        ELSE ctx.resolved.orch_replan_request_id} |->
    Let([req_ref0 \in {IF explicit # "" THEN explicit
        ELSE get_chat_selected_task_ref(ctx.ms.chat_sessions, chat_id)} |->
    IF req_ref0 = ""
    THEN consumed(send(ctx, IF cmd = "orch-retry" THEN "orch-retry usage" ELSE "orch-replan usage"),
                  "retry")
    ELSE
    Let([req_id \in {resolve_task_request_id(ctx.ms.tasks,
                                resolve_chat_task_ref(ctx.ms.chat_sessions, chat_id, req_ref0))} |->
    \* an unknown request is queried and reconciled; a failing query leaves None
    Let([ctx1 \in {IF get_task_record(ctx.ms.tasks, req_id) # <<>> \/ ~ctx.answer.ok THEN ctx
        ELSE sync_from_query(ctx, run_request_query(ctx, req_id))} |->
    Let([source_task \in {get_task_record(ctx1.ms.tasks, req_id)} |->
    IF source_task = <<>>
    THEN consumed(send(ctx1, IF cmd = "orch-retry" THEN "orch-retry missing task"
                             ELSE "orch-replan missing task"), "retry")
    ELSE IF source_task.prompt = ""
    THEN consumed(send(ctx1, IF cmd = "orch-retry" THEN "orch-retry missing prompt"
                             ELSE "orch-replan missing prompt"), "retry")
    ELSE [remember_task(ctx1, chat_id, req_id)
             EXCEPT !.resolved.cmd = "run",
                    !.resolved.rest = <<>>,
                    !.resolved.orch_target = ProjectKey,
                    !.resolved.run_prompt = source_task.prompt,
                    !.resolved.run_force_mode =
                        IF source_task.mode = "direct" THEN "direct" ELSE "dispatch",
                    !.run_roles_override = dedupe_roles(source_task.roles),
                    !.run_control_mode = IF cmd = "orch-retry" THEN "retry" ELSE "replan",
                    !.run_source_request_id = req_id]])])])])])])

\* ---------------------------------------------------------------------------
\* aoe_tg_command_handlers.py: handle_non_run_command_pipeline
\* ---------------------------------------------------------------------------
handle_non_run_command_pipeline(ctx, chat_id, chat_role) ==
    Let([c1 \in {handle_management_command(ctx, chat_id, chat_role)} |->
    Let([c2 \in {IF live(c1) THEN handle_orch_overview_command(c1, chat_id) ELSE c1} |->
    Let([c3 \in {IF live(c2) THEN handle_orch_task_command(c2, chat_id) ELSE c2} |->
    Let([c4 \in {IF live(c3) THEN resolve_retry_replan_transition(c3, chat_id) ELSE c3} |->
    IF live(c4) THEN handle_add_role_command(c4) ELSE c4])])])])

\* ---------------------------------------------------------------------------
\* aoe_tg_run_handlers.py: the run handler
\* ---------------------------------------------------------------------------
\* neither prompt of the model contains one of the routing keywords
choose_auto_dispatch_roles(prompt) == <<>>

\* _resolve_prompt_or_handle_unknown: the prompt, or "" with the reply sent
resolve_prompt(ctx, text) ==
    LET cmd == ctx.resolved.cmd
    IN  IF cmd \in {"run", "orch-run"}
        THEN IF ctx.resolved.run_prompt # "" THEN ctx.resolved.run_prompt ELSE joined(ctx.resolved.rest)
        ELSE IF cmd # "" THEN ""
        ELSE joined(text)

resolve_prompt_or_handle_unknown(ctx, text) ==
    LET cmd == ctx.resolved.cmd
        prompt == resolve_prompt(ctx, text)
    IN  IF prompt # "" THEN ctx
        ELSE IF cmd \in {"run", "orch-run"} THEN consumed(send(ctx, "run usage"), "run")
        ELSE IF cmd # "" THEN consumed(send(ctx, "unknown command"), "run")
        ELSE consumed(send(ctx, "empty prompt"), "run")

\* mutant: a run is neither rate-limited nor held for confirmation
run_without_gate(ctx, chat_id, prompt) == ctx

handle_run_rate_limit_and_confirm(ctx, chat_id, prompt) ==
    LET a == ctx.a
        rc == ctx.resolved
        max_running == Max(0, a.chat_max_running)
        daily_cap == Max(0, a.chat_daily_cap)
        usage == summarize_chat_usage(ctx.ms.tasks, chat_id, ctx.t \div 86400)
        risk == detect_high_risk_prompt(prompt)
        mode == IF rc.run_force_mode # "" THEN rc.run_force_mode ELSE "dispatch"
        held == save_manager_state(
                    [ctx EXCEPT !.ms.chat_sessions =
                                    set_confirm_action(@, chat_id, mode, prompt, risk,
                                                       rc.orch_target, ctx.t)])
    IN  IF rc.cmd \notin {"run", "orch-run"} THEN ctx
        ELSE IF max_running > 0 /\ usage.running >= max_running
        THEN consumed(log_event(send(ctx, "rate-limit-running"), "rate_limited", "rejected", ERROR_GATE),
                      "run")
        ELSE IF daily_cap > 0 /\ usage.submitted_today >= daily_cap
        THEN consumed(log_event(send(ctx, "rate-limit-daily"), "rate_limited", "rejected", ERROR_GATE),
                      "run")
        ELSE IF rc.run_auto_source # "default" THEN ctx
        ELSE IF risk = "" THEN ctx
        ELSE consumed(log_event(send(held, "confirm-required"), "confirm_required", "pending", ""),
                      "run")

resolve_dispatch_mode_and_roles(ctx, prompt) ==
    LET explicit_roles == IF ctx.run_roles_override # <<>> THEN ctx.run_roles_override ELSE ctx.a.roles
        auto_roles == IF ctx.a.auto_dispatch THEN choose_auto_dispatch_roles(prompt) ELSE <<>>
        run_force_mode == ctx.resolved.run_force_mode
    IN  IF run_force_mode = "direct" THEN [dispatch_mode |-> FALSE, dispatch_roles |-> <<>>]
        ELSE IF run_force_mode = "dispatch"
        THEN [dispatch_mode |-> TRUE,
              dispatch_roles |-> IF explicit_roles # <<>> THEN explicit_roles
                                 ELSE IF auto_roles # <<>> THEN auto_roles
                                 ELSE <<"Reviewer">>]
        ELSE IF explicit_roles # <<>> THEN [dispatch_mode |-> TRUE, dispatch_roles |-> explicit_roles]
        ELSE IF ctx.a.auto_dispatch /\ auto_roles # <<>>
        THEN [dispatch_mode |-> TRUE, dispatch_roles |-> auto_roles]
        ELSE [dispatch_mode |-> FALSE, dispatch_roles |-> <<>>]

\* _compute_dispatch_plan with planning reduced to the verdict it ends with
\* (ctx.answer.plan, after any repair; the repair loop itself is
\* build_and_repair_plan below); plan is "" when there is no plan
compute_dispatch_plan(ctx, dispatch_mode) ==
    LET a == ctx.a
        planning_enabled == a.task_planning \/ ctx.run_control_mode = "replan"
        run_source_task == get_task_record(ctx.ms.tasks, ctx.run_source_request_id)
        reuse_source_plan == /\ ctx.run_control_mode = "retry"
                             /\ run_source_task # <<>>
                             /\ run_source_task.plan # ""
        active == dispatch_mode /\ (planning_enabled \/ reuse_source_plan) /\ ~a.dry_run
        plan_data == IF ~active THEN ""
                     ELSE IF reuse_source_plan THEN run_source_task.plan
                     ELSE IF ctx.answer.plan = "error" THEN ""
                     ELSE ctx.answer.plan
    IN  [plan_data |-> plan_data,
         plan_error |-> active /\ ~reuse_source_plan /\ ctx.answer.plan = "error",
         plan_gate_blocked |-> a.plan_block_on_critic /\ plan_data = "blockers"]

\* the policies with the plan gate only
policies_without_verifier_gate(ctx, dispatch_mode, verifier_roles, plan_gate_blocked) ==
    IF ~dispatch_mode THEN ""
    ELSE IF plan_gate_blocked THEN "planning-gate"
    ELSE ""

\* the policies with the verifier gate only
policies_without_plan_gate(ctx, dispatch_mode, verifier_roles, plan_gate_blocked) ==
    IF ~dispatch_mode THEN ""
    ELSE IF ctx.a.require_verifier /\ verifier_roles = <<>> THEN "verifier-gate setup"
    ELSE ""

\* _enforce_dispatch_policies: the reply context of the terminal gate, "" to pass
enforce_dispatch_policies(ctx, dispatch_mode, verifier_roles, plan_gate_blocked) ==
    IF ~dispatch_mode THEN ""
    ELSE IF ctx.a.require_verifier /\ verifier_roles = <<>> THEN "verifier-gate setup"
    ELSE IF plan_gate_blocked THEN "planning-gate"
    ELSE ""

\* the request id aoe-orch gives a new request: the first one not yet known
RECURSIVE fresh_request_id(_, _)
fresh_request_id(tasks_in, i) ==
    IF i >= Len(RequestIds) \/ RequestIds[i] \notin DOMAIN tasks_in THEN RequestIds[i]
    ELSE fresh_request_id(tasks_in, i + 1)

\* _apply_plan_and_lineage on the new task req_id
apply_plan_and_lineage(tasks_in, req_id, plan, run_control_mode, run_source_request_id, t) ==
    Let([task \in {tasks_in[req_id]} |->
    Let([planned \in {IF plan.plan_data # ""
        THEN lifecycle_set_stage([task EXCEPT !.plan = plan.plan_data], "planning", "done", "plan")
        ELSE IF plan.plan_error
        THEN lifecycle_set_stage(task, "planning", "done", "fallback_no_plan")
        ELSE task} |->
    Let([lineage \in {(run_control_mode \in {"retry", "replan"} /\ run_source_request_id # "")} |->
    Let([tasks1 \in {DictSet(tasks_in, req_id,
                IF lineage
                THEN lifecycle_set_stage(
                         [planned EXCEPT !.source_request_id = run_source_request_id,
                                         !.control_mode = run_control_mode],
                         "intake", "done", run_control_mode)
                ELSE planned)} |->
    LET add(children) == IF req_id \in SeqToSet(children) THEN children ELSE Append(children, req_id)
    IN  IF lineage /\ run_source_request_id \in DOMAIN tasks1
        THEN DictSet(tasks1, run_source_request_id,
                     IF run_control_mode = "retry"
                     THEN [tasks1[run_source_request_id]
                              EXCEPT !.retry_children = add(@), !.updated_at = t]
                     ELSE [tasks1[run_source_request_id]
                              EXCEPT !.replan_children = add(@), !.updated_at = t])
        ELSE tasks1])])])])

\* _dispatch_and_sync_task, _apply_plan_and_lineage, the save and
\* _send_dispatch_result (handle_run_or_unknown_command, lines 1097-1161)
dispatch_and_report(ctx, chat_id, prompt, selected_roles, verifier_roles, plan) ==
    Let([req_id \in {fresh_request_id(ctx.ms.tasks, 1)} |->
    Let([called \in {[ctx EXCEPT !.exec = [kind |-> "dispatch", prompt |-> prompt, mode |-> "dispatch",
                              source |-> ctx.resolved.run_auto_source,
                              request_id |-> req_id]]} |->
    IF ~ctx.answer.ok
    THEN raise([called EXCEPT !.handler = "run", !.exec.request_id = ""], "aoe-orch run failed")
    ELSE
    Let([state \in {request_data(req_id, selected_roles, ctx.answer)} |->
    Let([ctx1 \in {remember_task([called EXCEPT !.ms.last_request_id = req_id], chat_id, req_id)} |->
    Let([synced \in {sync_task_lifecycle(ctx1.ms.tasks, state, prompt, "dispatch", selected_roles,
                            verifier_roles, ctx.a.require_verifier,
                            resolve_verifier_candidates(ctx.a.verifier_roles), ctx.t)} |->
    Let([ctx2 \in {save_manager_state(
            [ctx1 EXCEPT !.ms.tasks =
                apply_plan_and_lineage([synced EXCEPT ![req_id].initiator_chat_id = chat_id],
                                       req_id, plan, ctx.run_control_mode,
                                       ctx.run_source_request_id, ctx.t)])} |->
    Let([task \in {ctx2.ms.tasks[req_id]} |->
    IF ctx.a.require_verifier /\ task.stages["verification"] = "failed"
    THEN consumed(log_event(send(ctx2, "verifier-gate failed"), "dispatch_failed", "failed", ERROR_GATE),
                  "run")
    ELSE IF state.complete /\ state.replies > 0
    THEN consumed(log_event(send(ctx2, "synth"), "dispatch_completed", task.status, ""), "run")
    ELSE consumed(log_event(send(ctx2, "result"), "dispatch_result", task.status, ""), "run")])])])])])])])

direct_and_report(ctx, prompt) ==
    LET called == [ctx EXCEPT !.exec = [kind |-> "direct", prompt |-> prompt, mode |-> "direct",
                                        source |-> ctx.resolved.run_auto_source, request_id |-> ""]]
    IN  IF ~ctx.answer.ok THEN raise([called EXCEPT !.handler = "run"], "codex exec failed")
        ELSE consumed(log_event(send(called, "direct"), "direct_reply", "completed", ""), "run")

handle_run_or_unknown_command(ctx, chat_id, text) ==
    Let([prompt \in {resolve_prompt(ctx, text)} |->
    Let([c1 \in {resolve_prompt_or_handle_unknown(ctx, text)} |->
    Let([c2 \in {IF live(c1) THEN handle_run_rate_limit_and_confirm(c1, chat_id, prompt) ELSE c1} |->
    Let([dispatch_meta \in {resolve_dispatch_mode_and_roles(c2, prompt)} |->
    Let([plan \in {compute_dispatch_plan(c2, dispatch_meta.dispatch_mode)} |->
    Let([ensured \in {ensure_verifier_roles(dispatch_meta.dispatch_roles, c2.a.available_roles,
                              resolve_verifier_candidates(c2.a.verifier_roles))} |->
    Let([gate \in {enforce_dispatch_policies(c2, dispatch_meta.dispatch_mode, ensured.verifier_roles,
                                  plan.plan_gate_blocked)} |->
    IF ~live(c2) THEN c2
    ELSE IF ~known_project(c2.resolved.orch_target)
    THEN raise([c2 EXCEPT !.handler = "run"], "unknown orch project")
    ELSE IF gate # "" THEN consumed(send(c2, gate), "run")
    ELSE IF c2.a.dry_run THEN consumed(send(c2, "dry-run"), "run")
    ELSE IF ~dispatch_meta.dispatch_mode THEN direct_and_report(c2, prompt)
    ELSE dispatch_and_report(c2, chat_id, prompt, ensured.selected_roles,
                             ensured.verifier_roles, plan)])])])])])])])

\* ---------------------------------------------------------------------------
\* aoe-telegram-gateway.py: handle_text_message
\* ---------------------------------------------------------------------------
\* load_manager_state on the manager state file
load_manager_state(disk) == [disk EXCEPT !.chat_sessions = load_chat_sessions(@)]

NewContext(a, disk, t, answer) ==
    [a |-> a, ms |-> load_manager_state(disk), disk |-> disk, replies |-> <<>>, events |-> <<>>,
     exec |-> NoExec, handler |-> "", resolved |-> ResolvedCommand, error |-> "", done |-> FALSE,
     t |-> t, answer |-> answer, run_control_mode |-> "", run_source_request_id |-> "",
     run_roles_override |-> <<>>, cmd_key |-> "", chat_role |-> ""]

slash_only_hint(ctx) ==
    [log_event(send(ctx, "slash-only-hint"), "input_rejected", "rejected", ERROR_COMMAND)
        EXCEPT !.done = TRUE]

\* an except branch that swallows the error
handler_error_silent(ctx) == ctx

handler_error(ctx) ==
    log_event(send(ctx, "handler error"), "handler_error", "failed", classify_handler_error(ctx.error))

handle_text_message(a, disk, t, chat_id, text, answer) ==
    Let([c1 \in {log_event(NewContext(a, disk, t, answer), "incoming_message", "received", "")} |->
    Let([c2 \in {resolve_message_command(c1, text, chat_id)} |->
    Let([cmd_key \in {IF c2.resolved.cmd # "" THEN c2.resolved.cmd ELSE "run-default"} |->
    Let([chat_role \in {resolve_chat_role(chat_id, a)} |->
    Let([c3 \in {IF c2.error # "" THEN c2
        ELSE IF c2.resolved.cmd = "" /\ a.slash_only THEN slash_only_hint(c2)
        ELSE enforce_command_auth(
                 [log_event(c2, "command_resolved", "accepted", "")
                     EXCEPT !.cmd_key = cmd_key, !.chat_role = chat_role],
                 cmd_key, chat_role, chat_id)} |->
    Let([c4 \in {IF live(c3) THEN resolve_confirm_run_transition(c3, chat_id, t) ELSE c3} |->
    Let([c5 \in {IF live(c4) THEN handle_non_run_command_pipeline(c4, chat_id, chat_role) ELSE c4} |->
    Let([c6 \in {IF live(c5) THEN handle_run_or_unknown_command(c5, chat_id, text) ELSE c5} |->
    IF c6.error # "" THEN handler_error(c6) ELSE c6])])])])])])])])

\* ---------------------------------------------------------------------------
\* aoe-telegram-gateway.py: run_loop, the body of "for update_id, msg in ..."
\* ---------------------------------------------------------------------------
\* mutant: every text is a bootstrap command
is_bootstrap_any_command(text) == TRUE

is_bootstrap_allowed_command(text) ==
    parse_command(text)[1] \in {"start", "help", "id", "whoami", "lockme", "onlyme"}

acl_is_empty(a) == a.allow_chat_ids = {} /\ a.admin_chat_ids = {} /\ a.readonly_chat_ids = {}

update_allowed(a, chat_id, text) ==
    LET allowed == ensure_chat_allowed(chat_id, a.allow_chat_ids, a.admin_chat_ids,
                                       a.readonly_chat_ids, a.deny_by_default, a.owner_chat_id)
    IN  \/ allowed
        \/ a.deny_by_default /\ acl_is_empty(a) /\ is_bootstrap_allowed_command(text)

unauthorized_text(a) ==
    IF a.deny_by_default /\ acl_is_empty(a)
    THEN "not allowed. gateway is locked. use /lockme to claim this bot."
    ELSE "not allowed."

\* the record kept of the last update: who sent what, whether run_loop let it
\* through, and what handling it produced
NoUpdate ==
    [chat_id |-> "", text |-> <<>>, allowed |-> FALSE, cmd_key |-> "", chat_role |-> "",
     replies |-> <<>>, events |-> <<>>, exec |-> NoExec, handler |-> "", error |-> "",
     unauthorized_text |-> "", resolved |-> ResolvedCommand]

\* c is the context handle_text_message ends in, evaluated only for an admitted
\* update
run_loop(chat_id, text, first, c) ==
        IF ~update_allowed(args, chat_id, text)
        THEN /\ unauthorized_sent' = unauthorized_sent \cup {chat_id}
             /\ out' = [NoUpdate EXCEPT
                            !.chat_id = chat_id, !.text = text,
                            !.replies = IF first THEN <<"unauthorized">> ELSE <<>>,
                            !.events = IF first THEN <<<<"unauthorized_message", "rejected", ERROR_AUTH>>>>
                                       ELSE <<>>,
                            !.unauthorized_text = IF first THEN unauthorized_text(args) ELSE ""]
             /\ UNCHANGED <<args, chat_sessions, tasks, last_request_id, now>>
        ELSE /\ args' = c.a
             /\ chat_sessions' = c.disk.chat_sessions
             /\ tasks' = c.disk.tasks
             /\ last_request_id' = c.disk.last_request_id
             /\ out' = [chat_id |-> chat_id, text |-> text, allowed |-> TRUE, cmd_key |-> c.cmd_key,
                        chat_role |-> c.chat_role, replies |-> c.replies, events |-> c.events,
                        exec |-> c.exec, handler |-> c.handler, error |-> c.error,
                        unauthorized_text |-> "", resolved |-> c.resolved]
             /\ UNCHANGED <<now, unauthorized_sent>>

\* the context handle_text_message ends in on this update
handled_context(chat_id, text, answer) ==
    handle_text_message(args,
                        [chat_sessions |-> chat_sessions, tasks |-> tasks,
                         last_request_id |-> last_request_id],
                        now, chat_id, text, answer)

\* one update, with the poller's bookkeeping left aside
Update(chat_id, text, answer) ==
    /\ run_loop(chat_id, text, chat_id \notin unauthorized_sent, handled_context(chat_id, text, answer))
    /\ UNCHANGED poller

\* the task table of the next state stays within MaxTasks requests
WithinBounds == Cardinality(DOMAIN tasks') <= MaxTasks

\* time passes between two updates
Tick ==
    /\ \E d \in ClockSteps : now + d <= MaxNow /\ now' = now + d
    /\ UNCHANGED <<args, chat_sessions, tasks, last_request_id, unauthorized_sent, out, poller>>

\* ---------------------------------------------------------------------------
\* aoe-telegram-gateway.py: build_parser defaults and main's normalisation
\* ---------------------------------------------------------------------------
DEFAULT_CONFIRM_TTL_SEC == 300
DEFAULT_CHAT_MAX_RUNNING == 2
DEFAULT_CHAT_DAILY_CAP == 40
DEFAULT_TASK_PLAN_REPLAN_ATTEMPTS == 2

\* the namespace build_parser produces when no option is given; the project
\* has the roles Builder and Reviewer and no --roles default
DefaultArgs ==
    [allow_chat_ids |-> {}, admin_chat_ids |-> {}, readonly_chat_ids |-> {}, owner_chat_id |-> "",
     deny_by_default |-> TRUE, slash_only |-> TRUE, dry_run |-> FALSE,
     confirm_ttl_sec |-> DEFAULT_CONFIRM_TTL_SEC,
     chat_max_running |-> DEFAULT_CHAT_MAX_RUNNING, chat_daily_cap |-> DEFAULT_CHAT_DAILY_CAP,
     require_verifier |-> TRUE, auto_dispatch |-> FALSE, task_planning |-> TRUE,
     plan_block_on_critic |-> TRUE, plan_auto_replan |-> TRUE,
     plan_replan_attempts |-> DEFAULT_TASK_PLAN_REPLAN_ATTEMPTS,
     verifier_roles |-> DEFAULT_VERIFIER_ROLES,
     roles |-> <<>>, available_roles |-> <<"Builder", "Reviewer">>]

\* main, lines 4212-4216: the ACL seeds become the sets in force
main(seed) ==
    [seed EXCEPT !.owner_chat_id = normalize_owner_chat_id(@),
                 !.readonly_chat_ids = {x \in @ : x \notin seed.admin_chat_ids}]

\* ---------------------------------------------------------------------------
\* Updates by command family.  Every action is one iteration of run_loop's
\* for-body on one update.
\* ---------------------------------------------------------------------------
\* the orchestrator's call fails, or it answers with a running or a finished
\* request whose plan was approved
RunAnswers ==
    {[ok |-> FALSE, status |-> "failed", plan |-> "error"],
     [ok |-> TRUE, status |-> "running", plan |-> "approved"],
     [ok |-> TRUE, status |-> "done", plan |-> "approved"]}

\* a command that never calls the orchestrator is handled under one answer
NoAnswer == [ok |-> TRUE, status |-> "running", plan |-> "approved"]

\* the orchestrator's call exits non-zero
FailedCall == [ok |-> FALSE, status |-> "failed", plan |-> "error"]

\* plain text: a prompt, routed by pending_mode / default_mode if at all
PlainText ==
    \E chat_id \in Chats, p \in Prompts, answer \in RunAnswers :
        Update(chat_id, <<p>>, answer) /\ WithinBounds

\* /dispatch <prompt>, /direct <prompt>
SlashRun ==
    \E chat_id \in Chats, c \in {"/dispatch", "/direct"}, p \in Prompts, answer \in RunAnswers :
        Update(chat_id, <<c, p>>, answer) /\ WithinBounds

\* /ok
ConfirmRun ==
    \E chat_id \in Chats, answer \in RunAnswers : Update(chat_id, <<"/ok">>, answer) /\ WithinBounds

\* /dispatch, /direct without a prompt: arm the one-shot pending mode
QuickMode ==
    \E chat_id \in Chats, c \in {"/dispatch", "/direct"} : Update(chat_id, <<c>>, NoAnswer) /\ WithinBounds

\* /cancel without a request: drop pending mode and confirmation
CancelPending == \E chat_id \in Chats : Update(chat_id, <<"/cancel">>, NoAnswer) /\ WithinBounds

\* /mode, /on, /off, /mode direct
Mode ==
    \E chat_id \in Chats, text \in {<<"/mode">>, <<"/on">>, <<"/off">>, <<"/mode", "direct">>} :
        Update(chat_id, text, NoAnswer) /\ WithinBounds

\* ---------------------------------------------------------------------------
\* Specification of the confirmation protocol: two admitted chats with session
\* rows, the first with a default mode and the second without, the TTL option
\* below and above its floor, and the updates that route a plain prompt,
\* confirm it, cancel the confirmation and let time pass.
\* ---------------------------------------------------------------------------
ConfirmTtlOptions == {10, 60}

SeededSessions ==
    {[c \in Chats |-> IF c = "10001" THEN [default_mode |-> m, updated_at |-> "ts"]
                                      ELSE [updated_at |-> "ts"]] : m \in Modes}

InitConfirm ==
    /\ \E ttl \in ConfirmTtlOptions :
           args = main([DefaultArgs EXCEPT !.allow_chat_ids = Chats, !.confirm_ttl_sec = ttl,
                                           !.task_planning = FALSE])
    /\ chat_sessions \in SeededSessions
    /\ tasks = EmptyDict
    /\ last_request_id = ""
    /\ now = 0
    /\ unauthorized_sent = {}
    /\ out = NoUpdate
    /\ IdlePoller

NextConfirm ==
    \/ PlainText
    \/ ConfirmRun
    \/ CancelPending
    \/ Tick

SpecConfirm == InitConfirm /\ [][NextConfirm]_vars

\* ---------------------------------------------------------------------------
\* Properties of the confirmation protocol (SpecConfirm)
\* ---------------------------------------------------------------------------
\* the update was handed to the orchestrator, as a dispatch or a direct run
Executed(o) == o.exec.kind \in {"dispatch", "direct"}

\* the step handles an update (Tick alone moves the clock)
HandlesUpdate == now' = now

\* the step handles /ok from a chat that holds a confirmation request
HandlesOkWithToken ==
    /\ HandlesUpdate
    /\ out'.allowed
    /\ out'.text = <<"/ok">>
    /\ get_confirm_action(chat_sessions, out'.chat_id) # EmptyDict

\* C1: a high-risk prompt routed by the default mode is not executed by the
\* update that carries it, and a high-risk prompt that entered by default
\* routing is executed only by an /ok of the chat that holds the confirmation
\* request for that very prompt.
C1_RiskyDefaultRunNeedsOk ==
    [][LET o == out'
           token == get_confirm_action(chat_sessions, o.chat_id)
       IN  HandlesUpdate =>
               /\ (/\ o.resolved.run_auto_source = "default"
                   /\ detect_high_risk_prompt(o.resolved.run_prompt) # "") => ~Executed(o)
               /\ (/\ Executed(o)
                   /\ o.exec.source \in {"default", "confirmed"}
                   /\ detect_high_risk_prompt(o.exec.prompt) # "")
                      => /\ o.text = <<"/ok">>
                         /\ o.exec.source = "confirmed"
                         /\ token # EmptyDict
                         /\ token.prompt = o.exec.prompt]_vars

\* C1 witness: a default-routed high-risk prompt was held for confirmation
C1_HeldForConfirmation ==
    /\ out.resolved.run_auto_source = "default"
    /\ detect_high_risk_prompt(out.resolved.run_prompt) # ""
    /\ out.replies = <<"confirm-required">>
    /\ get_confirm_action(chat_sessions, out.chat_id) # EmptyDict
    /\ ~Executed(out)

\* C2 as stated: /ok executes the stored prompt only within confirm_ttl_sec of
\* requested_at; a later /ok executes nothing, answers that the request has
\* expired and clears the token.
C2_OkWithinConfiguredTtl ==
    [][LET o == out'
           token == get_confirm_action(chat_sessions, o.chat_id)
           age == now - token.requested_at
       IN  HandlesOkWithToken =>
               /\ Executed(o) => age <= args.confirm_ttl_sec
               /\ age > args.confirm_ttl_sec
                      => /\ ~Executed(o)
                         /\ o.replies = <<"confirm-expired">>
                         /\ get_confirm_action(chat_sessions', o.chat_id) = EmptyDict]_vars

\* C2 amended: /ok executes the stored prompt only within
\* max(30, confirm_ttl_sec) seconds of requested_at; a later /ok executes
\* nothing, answers that the request has expired and clears the token.
C2_OkWithinEffectiveTtl ==
    [][LET o == out'
           token == get_confirm_action(chat_sessions, o.chat_id)
           age == now - token.requested_at
           ttl == Max(30, args.confirm_ttl_sec)
       IN  HandlesOkWithToken =>
               /\ Executed(o) => age <= ttl
               /\ age > ttl
                      => /\ ~Executed(o)
                         /\ o.replies = <<"confirm-expired">>
                         /\ get_confirm_action(chat_sessions', o.chat_id) = EmptyDict]_vars

\* C2 witness: an /ok was answered as expired under a TTL option below 30
C2_ExpiredUnderFloor ==
    /\ out.text = <<"/ok">>
    /\ out.replies = <<"confirm-expired">>
    /\ args.confirm_ttl_sec < 30
    /\ ~Executed(out)

\* the run was turned away by the per-chat rate limit
RateLimited(o) == \E i \in DOMAIN o.events : o.events[i][1] = "rate_limited"

\* C3: an /ok on an unexpired request clears the request and re-synthesizes a
\* run of the stored prompt in the stored mode with run_auto_source =
\* confirmed; that run asks for no new confirmation and is handed to the
\* orchestrator unless the rate limit turns it away; an /ok of a chat without
\* a request executes nothing.
C3_ValidOkRunsOnce ==
    [][LET o == out'
           token == get_confirm_action(chat_sessions, o.chat_id)
           age == now - token.requested_at
       IN  /\ (HandlesOkWithToken /\ age <= Max(30, args.confirm_ttl_sec))
                  => /\ get_confirm_action(chat_sessions', o.chat_id) = EmptyDict
                     /\ o.resolved.cmd = "run"
                     /\ o.resolved.run_auto_source = "confirmed"
                     /\ o.resolved.run_prompt = token.prompt
                     /\ o.resolved.run_force_mode = token.mode
                     /\ Executed(o) \/ RateLimited(o)
                     /\ Executed(o) => /\ o.exec.prompt = token.prompt
                                       /\ o.exec.mode = token.mode
                                       /\ o.exec.source = "confirmed"
                     /\ \A i \in DOMAIN o.replies : o.replies[i] # "confirm-required"
           /\ (/\ HandlesUpdate
               /\ o.text = <<"/ok">>
               /\ token = EmptyDict) => ~Executed(o)]_vars

\* C3 witness: an /ok executed a stored high-risk prompt and left no request
C3_ConfirmedRun ==
    /\ out.text = <<"/ok">>
    /\ Executed(out)
    /\ out.exec.source = "confirmed"
    /\ detect_high_risk_prompt(out.exec.prompt) # ""
    /\ get_confirm_action(chat_sessions, out.chat_id) = EmptyDict

\* ---------------------------------------------------------------------------
\* Specification of access control: the gateway starts from any ACL seeds,
\* with or without an owner and in either default-access mode, and the chats
\* send the commands that change the ACL and the commands that only read.
\* ---------------------------------------------------------------------------
\* --owner-chat-id: none, a chat-id, or a text that is no chat-id
OwnerSeeds == {"", "10001", "me"}

GrantScopes == {"allow", "admin", "readonly"}

RevokeScopes == {"allow", "admin", "readonly", "all"}

\* /lockme, /onlyme
Lockme ==
    \E chat_id \in Chats, c \in {"/lockme", "/onlyme"} : Update(chat_id, <<c>>, NoAnswer) /\ WithinBounds

\* /grant <scope> <chat_id>
Grant ==
    \E chat_id \in Chats, scope \in GrantScopes, target \in Chats :
        Update(chat_id, <<"/grant", scope, target>>, NoAnswer) /\ WithinBounds

\* /revoke <scope> <chat_id>
Revoke ==
    \E chat_id \in Chats, scope \in RevokeScopes, target \in Chats :
        Update(chat_id, <<"/revoke", scope, target>>, NoAnswer) /\ WithinBounds

\* /whoami, /id, /help, /start, /acl
Info ==
    \E chat_id \in Chats, c \in {"/whoami", "/id", "/help", "/start", "/acl"} :
        Update(chat_id, <<c>>, NoAnswer) /\ WithinBounds

InitAcl ==
    /\ \E allow \in SUBSET Chats, admin \in SUBSET Chats, readonly \in SUBSET Chats,
          owner \in OwnerSeeds, deny \in BOOLEAN :
           args = main([DefaultArgs EXCEPT !.allow_chat_ids = allow, !.admin_chat_ids = admin,
                                           !.readonly_chat_ids = readonly, !.owner_chat_id = owner,
                                           !.deny_by_default = deny])
    /\ chat_sessions = EmptyDict
    /\ tasks = EmptyDict
    /\ last_request_id = ""
    /\ now = 0
    /\ unauthorized_sent = {}
    /\ out = NoUpdate
    /\ IdlePoller

NextAcl ==
    \/ Lockme
    \/ Grant
    \/ Revoke
    \/ Info

SpecAcl == InitAcl /\ [][NextAcl]_vars

\* ---------------------------------------------------------------------------
\* Properties of access control (SpecAcl)
\* ---------------------------------------------------------------------------
\* the command word of the update's text
Command(o) == parse_command(o.text)[1]

\* the three ACL sets
AclSets(a) == <<a.allow_chat_ids, a.admin_chat_ids, a.readonly_chat_ids>>

\* the update was turned away: by run_loop, or by the authorisation stage with
\* a permission-denied reply, before any handler took it
TurnedAway(o) ==
    /\ o.handler = ""
    /\ ~Executed(o)
    /\ o.allowed => o.replies = <<"auth-deny">>

\* C4: with a non-empty ACL, a lockme of a chat whose role is neither admin
\* nor owner is turned away and leaves the ACL sets and the owner as they
\* were; a lockme that takes effect comes from an admin or the owner.
C4_LockmeNeedsAdminOnceClaimed ==
    [][LET o == out'
           role == resolve_chat_role(o.chat_id, args)
       IN  (HandlesUpdate /\ Command(o) \in {"lockme", "onlyme"} /\ ~acl_is_empty(args))
               => /\ role \notin {"admin", "owner"}
                      => /\ TurnedAway(o)
                         /\ AclSets(args') = AclSets(args)
                         /\ args'.owner_chat_id = args.owner_chat_id
                  /\ o.handler = "management" => role \in {"admin", "owner"}]_vars

\* C4 witness: the lockme of a readonly chat was denied under a non-empty ACL
C4_ReadonlyLockmeDenied ==
    /\ out.cmd_key = "lockme"
    /\ out.chat_role = "readonly"
    /\ out.replies = <<"auth-deny">>
    /\ ~acl_is_empty(args)
    /\ args.owner_chat_id # out.chat_id

\* C6: under a configured owner, a lockme, grant or revoke of any other chat
\* is turned away and changes neither the ACL sets nor the owner.
C6_OwnerOnlyAclCommands ==
    [][LET o == out'
       IN  (/\ HandlesUpdate
            /\ args.owner_chat_id # ""
            /\ Command(o) \in {"lockme", "onlyme", "grant", "revoke"}
            /\ o.chat_id # args.owner_chat_id)
               => /\ TurnedAway(o)
                  /\ AclSets(args') = AclSets(args)
                  /\ args'.owner_chat_id = args.owner_chat_id]_vars

\* C6 witness: the grant of an admin chat was denied because another chat is
\* the owner
C6_AdminGrantDenied ==
    /\ out.cmd_key = "grant"
    /\ out.chat_role = "admin"
    /\ out.replies = <<"auth-deny">>
    /\ args.owner_chat_id \notin {"", out.chat_id}

\* C7: no chat of the readonly set is in the admin set or the allow set.
C7_ReadonlyDisjoint ==
    args.readonly_chat_ids \cap (args.admin_chat_ids \cup args.allow_chat_ids) = {}

\* the ACL sets a revoke of scope on target would leave, and the role chat_id
\* then has under deny_by_default
RoleAfterRevoke(a, scope, target, chat_id) ==
    LET allow == IF scope \in {"allow", "all"} THEN a.allow_chat_ids \ {target} ELSE a.allow_chat_ids
        admin == IF scope \in {"admin", "all"} THEN a.admin_chat_ids \ {target} ELSE a.admin_chat_ids
        readonly == IF scope \in {"readonly", "all"} THEN a.readonly_chat_ids \ {target}
                    ELSE a.readonly_chat_ids
    IN  IF chat_id \in admin THEN "admin"
        ELSE IF chat_id \in readonly \ allow THEN "readonly"
        ELSE IF chat_id \in allow THEN "admin"
        ELSE "unknown"

\* C8: under deny_by_default, a revoke a chat other than the owner issues
\* against itself leaves the three ACL sets unchanged whenever the chat would
\* no longer be an admin after it.
C8_SelfRevokeKeepsAdmin ==
    [][LET o == out'
       IN  (/\ HandlesUpdate
            /\ args.deny_by_default
            /\ Command(o) = "revoke"
            /\ Len(o.text) = 3
            /\ o.text[3] = o.chat_id
            /\ o.chat_id # args.owner_chat_id
            /\ RoleAfterRevoke(args, normalize_acl_scope(o.text[2]), o.chat_id, o.chat_id) # "admin")
               => /\ AclSets(args') = AclSets(args)
                  /\ \A i \in DOMAIN o.replies : o.replies[i] # "revoke"]_vars

\* C8 witness: the self-revoke guard blocked a revoke
C8_SelfRevokeBlocked ==
    /\ out.cmd_key = "revoke"
    /\ out.replies = <<"revoke-guard">>
    /\ out.resolved.acl_revoke_chat_id = out.chat_id
    /\ args.deny_by_default

\* the reply to a chat that is turned away while the gateway is unclaimed
LockedText == "not allowed. gateway is locked. use /lockme to claim this bot."

\* the update was dropped by run_loop with the reply and the event of a locked
\* gateway
RejectedAsLocked(o) ==
    /\ ~o.allowed
    /\ o.handler = ""
    /\ o.replies = <<"unauthorized">>
    /\ o.unauthorized_text = LockedText
    /\ o.events = <<<<"unauthorized_message", "rejected", ERROR_AUTH>>>>

AdminChat == "10001"

ReadonlyChat == "10002"

\* the texts whose command a readonly chat is denied
MutatingTexts ==
    {<<"/dispatch", SafePrompt>>, <<"/direct", SafePrompt>>, <<SafePrompt>>, <<"/ok">>,
     <<"/dispatch">>, <<"/retry", "r1">>, <<"/replan", "r1">>, <<"/cancel", "r1">>,
     <<"/grant", "admin", ReadonlyChat>>, <<"/revoke", "readonly", ReadonlyChat>>, <<"/lockme">>,
     <<"aoe", "add-role", "Builder">>, <<"aoe", "orch", "add", "demo", "--path", "p">>,
     <<"aoe", "orch", "use", "default">>}

\* the texts whose command a readonly chat may send
ReadingTexts ==
    {<<"/status">>, <<"/whoami">>, <<"/help">>, <<"/mode">>, <<"/on">>, <<"/acl">>, <<"/monitor">>,
     <<"/kpi">>, <<"/check", "r1">>, <<"/task", "r1">>, <<"/pick", "r1">>, <<"/request", "r1">>,
     <<"/cancel">>}

\* the session rows of the readonly chat: none, a default mode, a pending
\* mode, a confirmation request next to a default mode
ReadonlySessionRows ==
    {EmptyDict,
     [default_mode |-> "dispatch", updated_at |-> "ts"],
     [pending_mode |-> "direct", updated_at |-> "ts"],
     [default_mode |-> "dispatch", updated_at |-> "ts",
      confirm_action |-> [mode |-> "dispatch", prompt |-> RiskyPrompt, requested_at |-> 0,
                          risk |-> "destructive_delete", orch |-> ""]]}

\* a query of a request whose verifier gate fails appends the gate's note to
\* the task history on every call (up to DEFAULT_TASK_HISTORY_LIMIT rows); the
\* specification follows a task for MaxHistory rows
HistoryWithinBounds == \A r \in DOMAIN tasks' : Len(tasks'[r].history) <= MaxHistory

\* the admin chat dispatches a request
AdminRun ==
    \E answer \in RunAnswers :
        Update(AdminChat, <<"/dispatch", SafePrompt>>, answer) /\ WithinBounds /\ HistoryWithinBounds

\* the readonly chat sends a command that changes or runs something
ReadonlyMutates ==
    \E text \in MutatingTexts :
        Update(ReadonlyChat, text, NoAnswer) /\ WithinBounds /\ HistoryWithinBounds

\* the readonly chat sends a command that reads
ReadonlyReads ==
    \E text \in ReadingTexts, answer \in {NoAnswer, FailedCall} :
        Update(ReadonlyChat, text, answer) /\ WithinBounds /\ HistoryWithinBounds

InitReadonly ==
    /\ \E slash_only \in BOOLEAN :
           args = main([DefaultArgs EXCEPT !.allow_chat_ids = {AdminChat},
                                           !.readonly_chat_ids = {ReadonlyChat},
                                           !.slash_only = slash_only, !.task_planning = FALSE])
    /\ \E row \in ReadonlySessionRows :
           chat_sessions = IF row = EmptyDict THEN EmptyDict ELSE (ReadonlyChat :> row)
    /\ tasks = EmptyDict
    /\ last_request_id = ""
    /\ now = 0
    /\ unauthorized_sent = {}
    /\ out = NoUpdate
    /\ IdlePoller

NextReadonly ==
    \/ AdminRun
    \/ ReadonlyMutates
    \/ ReadonlyReads

SpecReadonly == InitReadonly /\ [][NextReadonly]_vars

\* ---------------------------------------------------------------------------
\* Properties of the readonly role (SpecReadonly)
\* ---------------------------------------------------------------------------
\* the authorisation stage denied the command: one permission-denied reply,
\* the auth_denied event, and no handler, call or change of tasks and ACL
DeniedBeforeHandlers ==
    /\ out'.replies = <<"auth-deny">>
    /\ out'.events[Len(out'.events)] = <<"auth_denied", "rejected", ERROR_AUTH>>
    /\ out'.handler = ""
    /\ out'.exec.kind = "none"
    /\ tasks' = tasks
    /\ last_request_id' = last_request_id
    /\ args' = args

\* C5: of a readonly chat only the commands start, help, orch-help, mode,
\* whoami, acl, status, orch-status, request, orch-list, orch-monitor,
\* orch-kpi, orch-check, orch-task, orch-pick and cancel-pending reach a
\* handler; every other resolved command is denied before any handler runs.
C5_ReadonlyOnlyReads ==
    [][LET o == out'
           reading == {"start", "help", "orch-help", "mode", "whoami", "acl", "status",
                       "orch-status", "request", "orch-list", "orch-monitor", "orch-kpi",
                       "orch-check", "orch-task", "orch-pick", "cancel-pending"}
       IN  (HandlesUpdate /\ o.allowed /\ resolve_chat_role(o.chat_id, args) = "readonly")
               => /\ (o.cmd_key # "" /\ o.cmd_key \notin reading) => DeniedBeforeHandlers
                  /\ o.resolved.cmd \in {"run", "confirm-run", "orch-retry", "orch-replan",
                                         "orch-cancel", "grant", "revoke", "lockme", "add-role",
                                         "orch-add", "orch-use"} => DeniedBeforeHandlers
                  /\ (o.handler # "" \/ o.exec.kind # "none") => o.cmd_key \in reading]_vars

\* C5 witness: the /ok of a readonly chat that holds a confirmation request
\* was denied
C5_ReadonlyOkDenied ==
    /\ out.chat_role = "readonly"
    /\ out.cmd_key = "confirm-run"
    /\ out.replies = <<"auth-deny">>
    /\ get_confirm_action(chat_sessions, out.chat_id) # EmptyDict
    /\ out.exec.kind = "none"

\* ---------------------------------------------------------------------------
\* Specification of the task lifecycle: the project reconciles request r1 with
\* one orchestrator snapshot after another, under either setting of the
\* verifier gate.
\* ---------------------------------------------------------------------------
RoleRowStatuses == {"running", "done", "failed"}

\* the role rows of a snapshot: no row yet, or one row each for Builder and
\* Reviewer
RoleRows ==
    {<<>>}
        \cup {<<[role |-> "Builder", status |-> b], [role |-> "Reviewer", status |-> v]>> :
                  b \in RoleRowStatuses, v \in RoleRowStatuses}

\* a snapshot counts one reply for every role that is done
Snapshots ==
    {[request_id |-> "r1", role_states |-> rows, complete |-> complete,
      replies |-> Len(SelectSeq(rows, LAMBDA row : row.status = "done"))] :
         rows \in RoleRows, complete \in BOOLEAN}

\* the roles a caller selected (none: inferred from the snapshot's rows)
SelectedRoles == {<<>>, <<"Builder", "Reviewer">>}

\* the verifier roles a caller passes (none: inferred from the roles)
VerifierRoles == {<<>>, <<"Reviewer">>, <<"QA">>}

\* one call of sync_task_lifecycle
Reconcile ==
    /\ \E data \in Snapshots, selected_roles \in SelectedRoles, verifier_roles \in VerifierRoles :
           tasks' = sync_task_lifecycle(tasks, data, SafePrompt, "dispatch", selected_roles,
                                        verifier_roles, args.require_verifier,
                                        resolve_verifier_candidates(args.verifier_roles), now)
    /\ HistoryWithinBounds
    /\ last_request_id' = "r1"
    /\ UNCHANGED <<args, chat_sessions, now, unauthorized_sent, out, poller>>

InitLifecycle ==
    /\ \E require_verifier \in BOOLEAN :
           args = main([DefaultArgs EXCEPT !.allow_chat_ids = {AdminChat},
                                           !.require_verifier = require_verifier])
    /\ chat_sessions = EmptyDict
    /\ tasks = EmptyDict
    /\ last_request_id = ""
    /\ now = 0
    /\ unauthorized_sent = {}
    /\ out = NoUpdate
    /\ IdlePoller

NextLifecycle == Reconcile

SpecLifecycle == InitLifecycle /\ [][NextLifecycle]_vars

\* ---------------------------------------------------------------------------
\* Properties of the task lifecycle (SpecLifecycle)
\* ---------------------------------------------------------------------------
\* every verifier role of the task is among the roles the snapshot reports done
VerifiersDone(task) ==
    /\ task.verifier_roles # <<>>
    /\ \A v \in SeqToSet(task.verifier_roles) : v \in task.result.done_roles

\* C10: under the verifier gate a reconciled task has its verification stage
\* done only if it has a verifier role and all its verifier roles are done,
\* and its status is completed only if its verification stage is done.
C10_VerifierGate ==
    \A r \in DOMAIN tasks :
        tasks[r].require_verifier
            => /\ tasks[r].stages["verification"] = "done" => VerifiersDone(tasks[r])
               /\ tasks[r].status = "completed" => tasks[r].stages["verification"] = "done"

\* C10 witness: a gated task completed with its verifier role done
C10_GatedTaskCompleted ==
    \E r \in DOMAIN tasks :
        /\ tasks[r].require_verifier
        /\ tasks[r].status = "completed"
        /\ tasks[r].stages["verification"] = "done"
        /\ VerifiersDone(tasks[r])

\* C11: the stages map of every task has exactly the seven lifecycle stages
\* as its keys, and the task's stage is the stage of the last transition it
\* went through (the last row of its history; intake before any).
C11_StagesAndStage ==
    \A r \in DOMAIN tasks :
        /\ DOMAIN tasks[r].stages = SeqToSet(LIFECYCLE_STAGES)
        /\ Len(LIFECYCLE_STAGES) = 7
        /\ tasks[r].stage = IF tasks[r].history = <<>> THEN "intake"
                            ELSE tasks[r].history[Len(tasks[r].history)].stage

\* C11 witness: a task reconciled twice whose last transition was not the
\* close stage
C11_LastTransitionMidway ==
    \E r \in DOMAIN tasks :
        /\ Len(tasks[r].history) > 5
        /\ tasks[r].stage \in {"execution", "verification"}
        /\ tasks[r].stages["close"] # "pending"

\* ---------------------------------------------------------------------------
\* Specification of the task history: request r1, which the project does not
\* know and which has no verifier role, was queried QueriedTimes times (every
\* query reconciles it and appends the verifier gate's note), and then goes
\* through stage transitions, one a second.
\* ---------------------------------------------------------------------------
QueriedTimes == {74, 75, 76}

\* the first query creates the record; each later one finds every stage as it
\* left it and so adds only the row of the verification stage, whose note is
\* not empty
queried(k) ==
    LET first == sync_task_lifecycle(EmptyDict, request_data("r1", <<>>, NoAnswer), "", "dispatch",
                                     <<>>, <<>>, TRUE, DEFAULT_VERIFIER_ROLES, 0)
        row == [stage |-> "verification", status |-> "failed", note |-> "no verifier role assigned"]
    IN  [first EXCEPT !["r1"].history = @ \o [i \in 1..(k - 1) |-> row],
                      !["r1"].stage = IF k > 1 THEN "verification" ELSE @]

\* "review" is not a lifecycle stage
SetStageInputs ==
    [stage : {"execution", "verification", "review"}, status : {"running", "failed"},
     note : {"", "note"}]

\* one call of lifecycle_set_stage
SetStage ==
    /\ now + 1 <= MaxSetStages
    /\ now' = now + 1
    /\ \E i \in SetStageInputs :
           tasks' = [tasks EXCEPT !["r1"] = lifecycle_set_stage(@, i.stage, i.status, i.note)]
    /\ UNCHANGED <<args, chat_sessions, last_request_id, unauthorized_sent, out, poller>>

InitHistory ==
    /\ args = main([DefaultArgs EXCEPT !.allow_chat_ids = {AdminChat}])
    /\ chat_sessions = EmptyDict
    /\ \E k \in QueriedTimes : tasks = queried(k)
    /\ last_request_id = ""
    /\ now = 0
    /\ unauthorized_sent = {}
    /\ out = NoUpdate
    /\ IdlePoller

NextHistory == SetStage

SpecHistory == InitHistory /\ [][NextHistory]_vars

\* ---------------------------------------------------------------------------
\* Properties of the task history (SpecHistory)
\* ---------------------------------------------------------------------------
\* C12 as stated: a transition leaves the rows of the history in place, adds
\* at most one row at the end, and the history has at most 80 rows.
C12_AppendOnlyNeverRemoves ==
    [][\A r \in DOMAIN tasks \cap DOMAIN tasks' :
           LET h == tasks[r].history
               g == tasks'[r].history
           IN  /\ Len(g) <= 80
               /\ Len(g) \in {Len(h), Len(h) + 1}
               /\ SubSeq(g, 1, Len(h)) = h]_vars

\* C12: a transition changes the history only by adding one row at the end
\* and, when that makes more than 80 rows, dropping the oldest; the rows that
\* stay keep their content and order, and the history has at most 80 rows.
C12_AppendAndTrim ==
    [][\A r \in DOMAIN tasks \cap DOMAIN tasks' :
           LET h == tasks[r].history
               g == tasks'[r].history
               a == Append(h, g[Len(g)])
           IN  /\ Len(g) <= 80
               /\ Len(h) <= 80
               /\ \/ g = h
                  \/ g # <<>> /\ g = IF Len(a) > 80 THEN Tail(a) ELSE a]_vars

\* C12 witness: the history holds 80 rows and its first rows have been dropped
C12_OldestDropped ==
    /\ "r1" \in DOMAIN tasks
    /\ Len(tasks["r1"].history) = 80
    /\ tasks["r1"].history[1].stage # "intake"
    /\ tasks["r1"].history[80].note = "note"

\* ---------------------------------------------------------------------------
\* Specification of the rate limits: two admitted chats, the running cap
\* disabled or set to one task, and the updates that run a prompt, retry or
\* replan request r1 and query it.
\* ---------------------------------------------------------------------------
RunningCaps == {0, 1}

\* /retry r1, /replan r1
Retry ==
    \E chat_id \in Chats, c \in {"/retry", "/replan"}, answer \in RunAnswers :
        Update(chat_id, <<c, "r1">>, answer) /\ WithinBounds /\ HistoryWithinBounds

\* /dispatch <prompt>, /direct <prompt> while the task history is followed
Run ==
    \E chat_id \in Chats, c \in {"/dispatch", "/direct"}, answer \in RunAnswers :
        Update(chat_id, <<c, SafePrompt>>, answer) /\ WithinBounds /\ HistoryWithinBounds

\* /check r1: the request is reconciled with the orchestrator's answer
Check ==
    \E chat_id \in Chats, answer \in RunAnswers :
        Update(chat_id, <<"/check", "r1">>, answer) /\ WithinBounds /\ HistoryWithinBounds

InitRate ==
    /\ \E cap \in RunningCaps :
           args = main([DefaultArgs EXCEPT !.allow_chat_ids = Chats, !.chat_max_running = cap,
                                           !.task_planning = FALSE])
    /\ chat_sessions = EmptyDict
    /\ tasks = EmptyDict
    /\ last_request_id = ""
    /\ now = 0
    /\ unauthorized_sent = {}
    /\ out = NoUpdate
    /\ IdlePoller

NextRate ==
    \/ Run
    \/ Retry
    \/ Check

SpecRate == InitRate /\ [][NextRate]_vars

\* ---------------------------------------------------------------------------
\* Properties of the rate limits (SpecRate)
\* ---------------------------------------------------------------------------
\* the tasks of a chat that are pending or running
RunningOf(chat_id) ==
    {r \in DOMAIN tasks : /\ tasks[r].initiator_chat_id = chat_id
                          /\ tasks[r].status \in {"pending", "running"}}

RejectedByRunningCap(o) ==
    /\ o.replies = <<"rate-limit-running">>
    /\ o.events # <<>>
    /\ o.events[Len(o.events)] = <<"rate_limited", "rejected", ERROR_GATE>>
    /\ ~Executed(o)

\* C13: a run is rejected by the running cap exactly when the cap is positive
\* and the sending chat has at least that many pending or running tasks.
C13_RunningCapIff ==
    [][LET o == out'
       IN  (HandlesUpdate /\ o.allowed /\ o.resolved.cmd \in {"run", "orch-run"}
                /\ o.resolved.run_prompt # "")
               => (RejectedByRunningCap(o)
                      <=> /\ args.chat_max_running > 0
                          /\ Cardinality(RunningOf(o.chat_id)) >= args.chat_max_running)]_vars

\* C13 witness: a run of a chat at its cap was rejected while the cap is set
C13_RunRejectedAtCap ==
    /\ out.text # <<>>
    /\ out.text[1] \in {"/dispatch", "/direct"}
    /\ RejectedByRunningCap(out)
    /\ args.chat_max_running = 1
    /\ Cardinality(RunningOf(out.chat_id)) = 1

\* C14: the running and daily pre-checks never reject the run that a retry or
\* replan transition produced.
C14_RetryRunsNotRateLimited ==
    [][LET o == out'
       IN  (HandlesUpdate /\ o.allowed /\ o.cmd_key \in {"orch-retry", "orch-replan"})
               => ~RateLimited(o)]_vars

\* ---------------------------------------------------------------------------
\* Specification of the routing modes: two admitted chats, the first with or
\* without a session row from the state file and the second without one, with
\* and without --no-slash-only, and the updates that arm the one-shot pending
\* mode, set or clear the default mode, send a plain prompt, confirm it and
\* cancel.
\* ---------------------------------------------------------------------------
RoutingSessions ==
    {EmptyDict, load_chat_sessions("10001" :> [default_mode |-> "direct", updated_at |-> "ts"])}

\* texts without a slash that the quick or the CLI parser resolves
WordedTexts == {<<"status">>, <<"cancel">>, <<"aoe", "status">>, <<"aoe", "mode", "off">>}

\* a command in words
Worded ==
    \E chat_id \in Chats, text \in WordedTexts : Update(chat_id, text, NoAnswer) /\ WithinBounds

InitRouting ==
    /\ \E slash_only \in BOOLEAN :
           args = main([DefaultArgs EXCEPT !.allow_chat_ids = Chats, !.slash_only = slash_only,
                                           !.task_planning = FALSE])
    /\ chat_sessions \in RoutingSessions
    /\ tasks = EmptyDict
    /\ last_request_id = ""
    /\ now = 0
    /\ unauthorized_sent = {}
    /\ out = NoUpdate
    /\ IdlePoller

NextRouting ==
    \/ QuickMode
    \/ Mode
    \/ PlainText
    \/ ConfirmRun
    \/ CancelPending
    \/ Worded

SpecRouting == InitRouting /\ [][NextRouting]_vars

\* ---------------------------------------------------------------------------
\* Properties of the routing modes (SpecRouting)
\* ---------------------------------------------------------------------------
\* the update is a prompt: no parser resolves its text to a command
PlainPrompt(o) == \E p \in Prompts : o.text = <<p>>

\* C15: /dispatch or /direct without text arms the pending mode of the chat,
\* whatever session row it has; the chat's next prompt is resolved to a run forced to that mode with the
\* pending mode cleared; a prompt of a chat without a pending mode is not
\* routed by it.
C15_PendingModeOneShot ==
    [][LET o == out'
           armed == get_pending_mode(chat_sessions, o.chat_id)
       IN  (HandlesUpdate /\ o.allowed)
               => /\ (o.text \in {<<"/dispatch">>, <<"/direct">>} /\ o.chat_role # "readonly")
                       => get_pending_mode(chat_sessions', o.chat_id)
                              = (IF o.text = <<"/dispatch">> THEN "dispatch" ELSE "direct")
                  /\ (PlainPrompt(o) /\ armed # "")
                       => /\ o.resolved.cmd = "run"
                          /\ o.resolved.run_prompt = o.text[1]
                          /\ o.resolved.run_force_mode = armed
                          /\ o.resolved.run_auto_source = "pending"
                          /\ get_pending_mode(chat_sessions', o.chat_id) = ""
                          /\ Executed(o) \/ RateLimited(o)
                          /\ Executed(o) => o.exec.mode = armed /\ o.exec.prompt = o.text[1]
                  /\ (PlainPrompt(o) /\ armed = "")
                       => o.resolved.run_auto_source # "pending"]_vars

\* C16: /mode dispatch, /mode on (/on) or /mode direct sets the default mode
\* of a chat that is not readonly; while a chat has a default mode and no
\* pending mode its prompts are resolved to a run forced to the default mode,
\* and only /mode off (/off) takes the default mode away.
C16_DefaultModeSticky ==
    [][LET o == out'
           before == get_default_mode(chat_sessions, o.chat_id)
           after == get_default_mode(chat_sessions', o.chat_id)
       IN  (HandlesUpdate /\ o.allowed)
               => /\ (o.text \in {<<"/on">>, <<"/mode", "direct">>} /\ o.chat_role # "readonly")
                       => after = (IF o.text = <<"/on">> THEN "dispatch" ELSE "direct")
                  /\ (PlainPrompt(o) /\ before # "" /\ get_pending_mode(chat_sessions, o.chat_id) = "")
                       => /\ o.resolved.cmd = "run"
                          /\ o.resolved.run_force_mode = before
                          /\ o.resolved.run_auto_source = "default"
                  /\ (before # "" /\ o.text # <<"/off">>) => after \in {before, "dispatch", "direct"}
                  /\ (before # "" /\ o.text \notin {<<"/off">>, <<"/on">>, <<"/mode", "direct">>})
                       => after = before]_vars

\* the resolved command came out of the pending or the default mode
RoutedAsPrompt(o) == o.resolved.run_auto_source \in {"pending", "default"}

\* C17 as stated: a text that the slash, the quick or the CLI parser resolves
\* to a command is never routed as a prompt by the pending or default mode.
C17_CommandsNeverRoutedAsPrompt ==
    [][LET o == out'
       IN  (HandlesUpdate /\ o.allowed
                /\ \/ parse_command(o.text)[1] # ""
                   \/ parse_quick_message(o.text).cmd # ""
                   \/ parse_cli_message(o.text).cmd # "")
               => ~RoutedAsPrompt(o)]_vars

\* C17: a text that the slash parser resolves, or without slash-only the
\* quick or the CLI parser, is never routed as a prompt by the pending or
\* default mode; with slash-only a text without a slash is routed by the
\* chat's pending or default mode if it has one, and only otherwise resolved
\* by the last pass, which accepts the safe commands of the quick parser.
C17_ParsersBeforeFallbacks ==
    [][LET o == out'
           slash == parse_command(o.text)[1] # ""
           quick == parse_quick_message(o.text)
           cli == parse_cli_message(o.text)
           armed == \/ get_pending_mode(chat_sessions, o.chat_id) # ""
                    \/ get_default_mode(chat_sessions, o.chat_id) # ""
       IN  (HandlesUpdate /\ o.allowed)
               => /\ (slash \/ (~args.slash_only /\ (quick.cmd # "" \/ cli.cmd # "" \/ cli.error # "")))
                       => ~RoutedAsPrompt(o)
                  /\ (args.slash_only /\ ~slash /\ armed) => RoutedAsPrompt(o)
                  /\ (args.slash_only /\ ~slash /\ ~armed /\ quick.cmd \in NATURAL_SAFE_CMDS)
                       => o.cmd_key = quick.cmd]_vars

\* C17 witness: without slash-only, the CLI form of status from a chat with a
\* default mode was handled as the command
C17_CliCommandNotRouted ==
    /\ out.text = <<"aoe", "status">>
    /\ ~args.slash_only
    /\ get_default_mode(chat_sessions, out.chat_id) # ""
    /\ out.cmd_key = "status"
    /\ ~RoutedAsPrompt(out)

PlannedRun ==
    \E c \in {"/dispatch", "/direct"}, answer \in Answers :
        Update(AdminChat, <<c, SafePrompt>>, answer) /\ WithinBounds /\ HistoryWithinBounds

\* /retry r1, /replan r1 under every answer
PlannedRetry ==
    \E c \in {"/retry", "/replan"}, answer \in Answers :
        Update(AdminChat, <<c, "r1">>, answer) /\ WithinBounds /\ HistoryWithinBounds

\* /check r1
PlannedCheck ==
    \E answer \in RunAnswers :
        Update(AdminChat, <<"/check", "r1">>, answer) /\ WithinBounds /\ HistoryWithinBounds

InitPlan ==
    /\ \E block \in BOOLEAN :
           args = main([DefaultArgs EXCEPT !.allow_chat_ids = {AdminChat},
                                           !.plan_block_on_critic = block])
    /\ chat_sessions = EmptyDict
    /\ tasks = EmptyDict
    /\ last_request_id = ""
    /\ now = 0
    /\ unauthorized_sent = {}
    /\ out = NoUpdate
    /\ IdlePoller

NextPlan ==
    \/ PlannedRun
    \/ PlannedRetry
    \/ PlannedCheck

SpecPlan == InitPlan /\ [][NextPlan]_vars

\* ---------------------------------------------------------------------------
\* Properties of the plan gate (SpecPlan)
\* ---------------------------------------------------------------------------
\* the step handles /dispatch <prompt> while the planner's final plan has
\* blockers
DispatchWithBlockers ==
    \E st \in AnswerStatuses :
        Update(AdminChat, <<"/dispatch", SafePrompt>>, [ok |-> TRUE, status |-> st, plan |-> "blockers"])

\* C19: with plan_block_on_critic set, a dispatch whose final plan has
\* blockers is answered with the plan gate's reason (unless a rate limit
\* rejected it before), creates no task and reaches no orchestrator call; no
\* dispatched task carries a plan with blockers.
C19_PlanGateBlocksDispatch ==
    [][LET o == out'
       IN  args.plan_block_on_critic
               => /\ DispatchWithBlockers
                       => /\ ~Executed(o)
                          /\ tasks' = tasks
                          /\ last_request_id' = last_request_id
                          /\ o.replies = <<"planning-gate">> \/ RateLimited(o)
                  /\ (HandlesUpdate /\ o.exec.kind = "dispatch"
                          /\ o.exec.request_id \in DOMAIN tasks')
                       => tasks'[o.exec.request_id].plan # "blockers"]_vars

\* C19 witness: the plan gate rejected a dispatch
C19_DispatchBlockedByCritic ==
    /\ args.plan_block_on_critic
    /\ out.text = <<"/dispatch", SafePrompt>>
    /\ out.replies = <<"planning-gate">>
    /\ ~Executed(out)
    /\ tasks = EmptyDict

\* ---------------------------------------------------------------------------
\* The plan repair loop of _compute_dispatch_plan.  The planner, the repair
\* call and the critic are external calls: calls[1] is the outcome of the
\* first plan and its critique, calls[i + 1] the outcome of repair attempt i
\* and its critique.  An outcome is the critic's answer, or raised when the
\* planner or the repair call raised (the critic catches its own errors).
\* ---------------------------------------------------------------------------
MaxReplanAttempts == 3

ApprovedCritic == [approved |-> TRUE, issues |-> <<>>]

PlanCritics ==
    {ApprovedCritic,
     [approved |-> TRUE, issues |-> <<"issue">>],
     [approved |-> FALSE, issues |-> <<>>]}

PlanCallOutcomes ==
    {[raised |-> FALSE, critic |-> c] : c \in PlanCritics}
        \cup {[raised |-> TRUE, critic |-> ApprovedCritic]}

PlanCalls == [1..(MaxReplanAttempts + 1) -> PlanCallOutcomes]

\* a critic whose every answer counts as a blocker
critic_always_blocks(critic) == TRUE

\* critic_has_blockers
critic_has_blockers(critic) == (~critic.approved) \/ critic.issues # <<>>

\* the except branch of _compute_dispatch_plan: no plan, no attempt rows
plan_failed(repairs) ==
    [plan_data |-> "", plan_critic |-> ApprovedCritic, plan_replans |-> <<>>,
     plan_error |-> TRUE, repairs |-> repairs]

\* the for loop over range(1, max_replans + 1), entered at attempt with the
\* plan meta m; repairs counts the repair calls made
RECURSIVE repair_loop(_, _, _, _)
repair_loop(calls, attempt, max_replans, m) ==
    IF attempt > max_replans \/ ~critic_has_blockers(m.plan_critic) THEN m
    ELSE IF calls[attempt + 1].raised THEN plan_failed(m.repairs + 1)
    ELSE repair_loop(calls, attempt + 1, max_replans,
             [m EXCEPT !.plan_critic = calls[attempt + 1].critic,
                       !.repairs = @ + 1,
                       !.plan_replans = Append(@,
                           [attempt |-> attempt,
                            critic |-> IF ~critic_has_blockers(calls[attempt + 1].critic)
                                       THEN "approved" ELSE "needs_fix"])])

\* the planning branch of _compute_dispatch_plan: the plan, its critique and
\* the repair loop
build_and_repair_plan(a, calls) ==
    IF calls[1].raised THEN plan_failed(0)
    ELSE Let([m \in {[plan_data |-> "plan", plan_critic |-> calls[1].critic, plan_replans |-> <<>>,
                      plan_error |-> FALSE, repairs |-> 0]} |->
         IF a.plan_auto_replan
         THEN repair_loop(calls, 1, Max(0, a.plan_replan_attempts), m)
         ELSE m])

\* a planned dispatch: the outcome of planning under the calls' outcomes
Plan ==
    \E calls \in PlanCalls :
        /\ out = NoUpdate
        /\ out' = [calls |-> calls, plan |-> build_and_repair_plan(args, calls)]
        /\ UNCHANGED <<args, chat_sessions, tasks, last_request_id, now, unauthorized_sent, poller>>

InitRepair ==
    /\ \E auto \in BOOLEAN, attempts \in 0..MaxReplanAttempts :
           args = main([DefaultArgs EXCEPT !.plan_auto_replan = auto,
                                           !.plan_replan_attempts = attempts])
    /\ chat_sessions = EmptyDict
    /\ tasks = EmptyDict
    /\ last_request_id = ""
    /\ now = 0
    /\ unauthorized_sent = {}
    /\ out = NoUpdate
    /\ IdlePoller

NextRepair == Plan

SpecRepair == InitRepair /\ [][NextRepair]_vars

\* planning has run
Planned == out # NoUpdate

\* C20: planning makes at most plan_replan_attempts repair calls and keeps at
\* most that many attempt rows, numbered 1, 2, ...; a repair is only made
\* while the critic before it had blockers, so the loop ends at the first
\* critique without blockers
C20_RepairLoopBounded ==
    Planned =>
        LET p == out.plan
            rows == p.plan_replans
        IN  /\ p.repairs <= args.plan_replan_attempts
            /\ Len(rows) <= args.plan_replan_attempts
            /\ Len(rows) <= p.repairs
            /\ \A i \in 1..Len(rows) : rows[i].attempt = i
            /\ \A i \in 1..p.repairs :
                   /\ ~out.calls[i].raised
                   /\ (~out.calls[i].critic.approved) \/ out.calls[i].critic.issues # <<>>
            /\ ~args.plan_auto_replan => p.repairs = 0

\* C20 witness: the second repair satisfied the critic and ended the loop
\* before the third attempt
C20_LoopEndedOnApproval ==
    /\ Planned
    /\ args.plan_replan_attempts = 3
    /\ Len(out.plan.plan_replans) = 2
    /\ out.plan.plan_replans[2].critic = "approved"
    /\ out.plan.repairs = 2

\* ---------------------------------------------------------------------------
\* The verifier gate (SpecVerifier): the planned runs of SpecPlan under every
\* combination of --require-verifier, --roles and the project's roles
\* ---------------------------------------------------------------------------
InitVerifier ==
    /\ \E require \in BOOLEAN, roles \in {<<>>, <<"Builder">>},
          available \in {<<"Builder">>, <<"Builder", "Reviewer">>} :
           args = main([DefaultArgs EXCEPT !.allow_chat_ids = {AdminChat},
                                           !.require_verifier = require,
                                           !.roles = roles,
                                           !.available_roles = available])
    /\ chat_sessions = EmptyDict
    /\ tasks = EmptyDict
    /\ last_request_id = ""
    /\ now = 0
    /\ unauthorized_sent = {}
    /\ out = NoUpdate
    /\ IdlePoller

NextVerifier ==
    \/ PlannedRun
    \/ PlannedRetry
    \/ PlannedCheck

SpecVerifier == InitVerifier /\ [][NextVerifier]_vars

\* a verifier candidate is among the roles --roles selects or the project has
VerifierAvailable ==
    \E r \in SeqToSet(args.roles) \cup SeqToSet(args.available_roles) :
        \E c \in SeqToSet(resolve_verifier_candidates(args.verifier_roles)) : lower(r) = lower(c)

\* the step handles /dispatch <prompt> under --roles
DispatchUnderRoles ==
    /\ args.roles # <<>>
    /\ \E answer \in Answers : Update(AdminChat, <<"/dispatch", SafePrompt>>, answer)

\* C21: with require_verifier set and no verifier candidate among the
\* selected and the project roles, a dispatch is answered with the verifier
\* gate's error (unless a rate limit rejected it before), reaches no
\* orchestrator call and creates no task record.
C21_VerifierGateRejectsBeforeInvocation ==
    [][(args.require_verifier /\ ~VerifierAvailable /\ DispatchUnderRoles)
           => LET o == out'
              IN  /\ ~Executed(o)
                  /\ tasks' = tasks
                  /\ last_request_id' = last_request_id
                  /\ o.replies = <<"verifier-gate setup">> \/ RateLimited(o)]_vars

\* C21 witness: the verifier gate rejected a dispatch of Builder alone in a
\* project without a verifier
C21_DispatchRejectedNoVerifier ==
    /\ args.require_verifier
    /\ ~VerifierAvailable
    /\ out.text = <<"/dispatch", SafePrompt>>
    /\ out.replies = <<"verifier-gate setup">>
    /\ ~Executed(out)
    /\ tasks = EmptyDict

\* ---------------------------------------------------------------------------
\* aoe-telegram-gateway.py: run_loop, the poller (SpecPoller).  A poll returns
\* a batch of updates with ids from the offset on, in increasing order; a
\* poll that fails or returns nothing changes no state.  Every iteration of
\* the for-body is one step.  The allowed chat starts without a session row
\* or with a default and a pending mode.
\* ---------------------------------------------------------------------------
MaxUpdateId == 4
MaxBatch == 2

OtherChat == "10002"

\* what an update carries: no message (an update of another kind), a message
\* without text, or a text from the allowed or from another chat
NoMessage == <<>>

PolledMessages ==
    {NoMessage,
     [chat_id |-> AdminChat, text |-> <<>>],
     [chat_id |-> AdminChat, text |-> <<"/help">>],
     [chat_id |-> AdminChat, text |-> <<"/dispatch", SafePrompt>>],
     [chat_id |-> AdminChat, text |-> <<"/off">>],
     [chat_id |-> OtherChat, text |-> <<"/help">>]}

\* the session rows the state file holds when the poller starts
PollerSessions ==
    {EmptyDict,
     load_chat_sessions(AdminChat :> [default_mode |-> "direct", pending_mode |-> "dispatch",
                                      updated_at |-> "ts"])}

\* the batches getUpdates may return when called with offset o
Batches(o) ==
    {b \in UNION {[1..n -> [update_id : o..MaxUpdateId, message : PolledMessages]] : n \in 1..MaxBatch} :
        \A i \in 1..(Len(b) - 1) : b[i].update_id < b[i + 1].update_id}

\* the updates in reverse
RECURSIVE iter_message_updates_reversed(_)
iter_message_updates_reversed(batch) ==
    IF batch = <<>> THEN <<>>
    ELSE (IF batch[Len(batch)].message # NoMessage THEN <<batch[Len(batch)]>> ELSE <<>>)
             \o iter_message_updates_reversed(SubSeq(batch, 1, Len(batch) - 1))

\* iter_message_updates: the updates that carry a message, in the batch's order
iter_message_updates(batch) ==
    SelectSeq(batch, LAMBDA upd : upd.update_id \in Int /\ upd.message # NoMessage)

\* an offset that stops at the update
offset_at_update(o, update_id) == Max(o, update_id)

\* "offset = max(offset, update_id + 1)"
next_offset(o, update_id) == Max(o, update_id + 1)

\* tg_get_updates returned a batch; the for loop starts on it
GetUpdates ==
    /\ pending = <<>>
    /\ \E batch \in Batches(offset) :
           /\ updates' = batch
           /\ pending' = iter_message_updates(batch)
    /\ handled' = <<>>
    /\ UNCHANGED <<args, chat_sessions, tasks, last_request_id, now, unauthorized_sent, out,
                   offset, processed>>

\* the for-body on a message without text: "continue"
SkipUpdate ==
    /\ pending # <<>>
    /\ Head(pending).message.text = <<>>
    /\ offset' = next_offset(offset, Head(pending).update_id)
    /\ pending' = Tail(pending)
    /\ UNCHANGED <<args, chat_sessions, tasks, last_request_id, now, unauthorized_sent, out,
                   processed, updates, handled>>

\* the for-body on a text: the allow filter, then handle_text_message
HandleUpdate ==
    /\ pending # <<>>
    /\ Head(pending).message.text # <<>>
    /\ LET update_id == Head(pending).update_id
           msg == Head(pending).message
       IN  /\ offset' = next_offset(offset, update_id)
           /\ pending' = Tail(pending)
           /\ \E answer \in RunAnswers :
                  run_loop(msg.chat_id, msg.text, msg.chat_id \notin unauthorized_sent,
                           handled_context(msg.chat_id, msg.text, answer))
           /\ IF update_allowed(args, msg.chat_id, msg.text)
              THEN /\ processed' = processed + 1
                   /\ handled' = Append(handled, update_id)
              ELSE UNCHANGED <<processed, handled>>
    /\ UNCHANGED updates
    /\ WithinBounds
    /\ HistoryWithinBounds

InitPoller ==
    /\ args = main([DefaultArgs EXCEPT !.allow_chat_ids = {AdminChat}])
    /\ chat_sessions \in PollerSessions
    /\ tasks = EmptyDict
    /\ last_request_id = ""
    /\ now = 0
    /\ unauthorized_sent = {}
    /\ out = NoUpdate
    /\ IdlePoller

NextPoller ==
    \/ GetUpdates
    \/ SkipUpdate
    \/ HandleUpdate

SpecPoller == InitPoller /\ [][NextPoller]_vars

\* the step takes the update at the head of the batch for processing
TakesUpdate == pending # <<>> /\ pending' = Tail(pending)

\* C22: the offset never decreases; a step that takes an update leaves the
\* offset at the larger of the old offset and the update's id plus one, so
\* above the update's id, and no other step changes the offset.
C22_OffsetMonotone ==
    [][/\ offset' >= offset
       /\ TakesUpdate => /\ offset' > Head(pending).update_id
                         /\ offset' \in {offset, Head(pending).update_id + 1}
       /\ ~TakesUpdate => offset' = offset]_vars

\* C22 witness: two updates of one batch taken, the offset past the second
C22_OffsetPastBatch ==
    /\ Len(updates) = 2
    /\ pending = <<>>
    /\ Len(iter_message_updates(updates)) = 2
    /\ offset = updates[2].update_id + 1
    /\ offset > 2

\* C23: within one batch the messages reach handle_text_message in
\* increasing update_id order: the update handled by a step has a larger id
\* than every update of the batch handled before it.
C23_HandledInUpdateIdOrder ==
    [][(handled' # handled /\ handled' # <<>>)
           => \A i \in 1..(Len(handled') - 1) : handled'[i] < handled'[Len(handled')]]_vars

\* C23 witness: both messages of a batch were handled, the lower id first
C23_TwoHandledInOrder ==
    /\ Len(handled) = 2
    /\ handled[1] < handled[2]
    /\ pending = <<>>

\* the step handed a message to handle_text_message and its handling raised
HandlingRaised == processed' = processed + 1 /\ out'.error # ""

\* C24: when handling a message raises, the failure reply is the last reply
\* sent and the handler_error row the last row logged, the loop moves on to
\* the rest of the batch with the message counted as processed, and the
\* poller keeps its batch and its offset past the update.
C24_HandlerErrorsDoNotStopPoller ==
    [][HandlingRaised
           => /\ out'.replies # <<>>
              /\ out'.replies[Len(out'.replies)] = "handler error"
              /\ out'.events # <<>>
              /\ out'.events[Len(out'.events)][1] = "handler_error"
              /\ out'.events[Len(out'.events)][2] = "failed"
              /\ pending' = Tail(pending)
              /\ updates' = updates
              /\ offset' > Head(pending).update_id]_vars

\* C24 witness: the first message of a batch raised and the second one was
\* handled after it
C24_HandledAfterError ==
    /\ Len(handled) = 2
    /\ processed >= 2
    /\ out.error = ""
    /\ out.allowed
    /\ \E i \in DOMAIN updates :
           /\ updates[i].update_id = handled[1]
           /\ updates[i].message.text = <<"/dispatch", SafePrompt>>
    /\ tasks = EmptyDict
    /\ unauthorized_sent = {}
    /\ out.text = <<"/help">>

\* the send_message rows among the rows logged
SendRows(o) == SelectSeq(o.events, LAMBDA row : row[1] = "send_message")

\* C25 as stated: handling a message appends exactly one event row
C25_ExactlyOneEventRow ==
    out.allowed => Len(out.events) = 1

\* C25: handling an admitted message logs incoming_message first, then at
\* least one more row, with one send_message row of status sent per reply
\* (three rows for /help); a message the allow filter rejects logs the single
\* row unauthorized_message the first time the chat is seen, nothing after.
C25_EventRowsPerMessage ==
    /\ out.allowed
           => /\ Len(out.events) >= 2
              /\ out.events[1] = <<"incoming_message", "received", "">>
              /\ Len(SendRows(out)) = Len(out.replies)
              /\ \A i \in 1..Len(SendRows(out)) : SendRows(out)[i] = <<"send_message", "sent", "">>
              /\ out.text = <<"/help">>
                     => out.events = <<<<"incoming_message", "received", "">>,
                                       <<"command_resolved", "accepted", "">>,
                                       <<"send_message", "sent", "">>>>
    /\ (~out.allowed /\ out.chat_id # "")
           => out.events \in {<<>>, <<<<"unauthorized_message", "rejected", ERROR_AUTH>>>>}

\* C25 witness: /help handled, three rows logged
C25_HelpLogsThreeRows ==
    /\ out.allowed
    /\ out.text = <<"/help">>
    /\ out.replies # <<>>
    /\ Len(out.events) = 3
    /\ processed > 0

\* ---------------------------------------------------------------------------
\* Task aliases (SpecAlias).  A prompt and an alias are sequences of tokens,
\* the words "-".join puts together; a short id is one token.  In this
\* specification tasks holds the alias fields of the project's tasks,
\* [request_id, prompt, short_id, alias, created_at], and out the rest of the
\* project entry, [task_alias_index, task_seq, loaded].
\* ---------------------------------------------------------------------------
MaxAliasTasks == 3

SHORT_IDS == <<"T-001", "T-002", "T-003", "T-004">>

TASK_ALIAS_STOPWORDS == {"the", "a", "an", "to", "for", "and", "or", "of"}

\* str.lower() on the tokens of the model
alias_lower(token) ==
    CASE token = "T-001" -> "t-001"
      [] token = "T-002" -> "t-002"
      [] token = "T-003" -> "t-003"
      [] token = "T-004" -> "t-004"
      [] token = "Report" -> "report"
      [] OTHER -> token

normalize_task_alias_key(raw) == [i \in 1..Len(raw) |-> alias_lower(raw[i])]

format_task_short_id(seq) == SHORT_IDS[Max(1, seq)]

parse_task_seq_from_short_id(short_id) ==
    IF \E n \in DOMAIN SHORT_IDS : SHORT_IDS[n] = short_id
    THEN CHOOSE n \in DOMAIN SHORT_IDS : SHORT_IDS[n] = short_id
    ELSE 0

derive_task_alias_base(prompt) ==
    LET tokens == [i \in 1..Len(prompt) |-> alias_lower(prompt[i])]
        kept == SelectSeq(tokens, LAMBDA t : t \notin TASK_ALIAS_STOPWORDS)
        picked == IF kept # <<>> THEN kept ELSE tokens
    IN  IF tokens = <<>> THEN <<"task">>
        ELSE SubSeq(picked, 1, IF Len(picked) < 5 THEN Len(picked) ELSE 5)

\* the tasks dict in insertion order (request ids are inserted in RequestIds
\* order), sorted by created_at as sorted() does: stable
rows_by_created_at(tasks_in) ==
    LET ids == ids_in_order(tasks_in, 1)
        before(i, j) == \/ tasks_in[ids[i]].created_at < tasks_in[ids[j]].created_at
                        \/ /\ tasks_in[ids[i]].created_at = tasks_in[ids[j]].created_at
                           /\ i < j
        rank(j) == 1 + Cardinality({i \in DOMAIN ids : before(i, j)})
    IN  [k \in DOMAIN ids |-> ids[CHOOSE j \in DOMAIN ids : rank(j) = k]]

\* rebuild_task_alias_index: the index of every short id and alias, a later
\* task of the dict overwriting an earlier one on the same key
rebuild_task_alias_index(entry) ==
    LET ids == ids_in_order(entry.tasks, 1)
        keys_of(rid) ==
            (IF entry.tasks[rid].short_id # ""
             THEN {normalize_task_alias_key(<<entry.tasks[rid].short_id>>)} ELSE {})
            \cup (IF entry.tasks[rid].alias # <<>>
                  THEN {normalize_task_alias_key(entry.tasks[rid].alias)} ELSE {})
        keys == UNION {keys_of(ids[i]) : i \in DOMAIN ids}
        last_with(key) == CHOOSE i \in DOMAIN ids :
                              /\ key \in keys_of(ids[i])
                              /\ \A j \in DOMAIN ids : key \in keys_of(ids[j]) => j <= i
        seqs == {parse_task_seq_from_short_id(entry.tasks[ids[i]].short_id) : i \in DOMAIN ids}
    IN  [entry EXCEPT !.task_alias_index = [key \in keys |-> ids[last_with(key)]],
                      !.task_seq = CHOOSE m \in seqs \cup {entry.task_seq} :
                                       \A n \in seqs \cup {entry.task_seq} : n <= m]

\* the "while True" loop over short-id candidates, from next_seq on
RECURSIVE free_task_seq(_, _, _)
free_task_seq(alias_index, req_id, next_seq) ==
    LET owner == DictGet(alias_index, normalize_task_alias_key(<<format_task_short_id(next_seq)>>), "")
    IN  IF owner = "" \/ owner = req_id THEN next_seq
        ELSE free_task_seq(alias_index, req_id, next_seq + 1)

\* the "while True" loop over alias candidates: base, base-2, base-3, ...
RECURSIVE free_task_alias(_, _, _, _, _)
free_task_alias(alias_index, req_id, base, candidate, suffix) ==
    LET owner == DictGet(alias_index, normalize_task_alias_key(candidate), "")
    IN  IF owner = "" \/ owner = req_id THEN candidate
        ELSE free_task_alias(alias_index, req_id, base, Append(base, ToString(suffix)), suffix + 1)

assign_task_alias(entry, req_id, prompt, rebuild_index) ==
    LET task == entry.tasks[req_id]
        alias_index == entry.task_alias_index
        next_seq == IF task.short_id = ""
                    THEN free_task_seq(alias_index, req_id, Max(entry.task_seq, 0) + 1)
                    ELSE entry.task_seq
        short_id == IF task.short_id = "" THEN format_task_short_id(next_seq) ELSE task.short_id
        source == IF prompt # <<>> THEN prompt
                  ELSE IF task.prompt # <<>> THEN task.prompt
                  ELSE <<alias_lower(short_id)>>
        alias == IF task.alias = <<>>
                 THEN LET base == derive_task_alias_base(source)
                      IN  free_task_alias(alias_index, req_id, base, base, 2)
                 ELSE task.alias
        assigned == [entry EXCEPT !.tasks[req_id].short_id = short_id,
                                  !.tasks[req_id].alias = alias,
                                  !.task_seq = next_seq]
    IN  IF rebuild_index THEN rebuild_task_alias_index(assigned) ELSE assigned

RECURSIVE backfill_rows(_, _)
backfill_rows(entry, rows) ==
    IF rows = <<>> THEN entry
    ELSE backfill_rows(assign_task_alias(entry, Head(rows), entry.tasks[Head(rows)].prompt, FALSE),
                       Tail(rows))

backfill_task_aliases(entry) ==
    IF entry.tasks = EmptyDict THEN entry
    ELSE rebuild_task_alias_index(backfill_rows(entry, rows_by_created_at(entry.tasks)))

\* ensure_task_record on a new request: the task gets its short id and alias
new_task_alias(entry, request_id, prompt, t) ==
    rebuild_task_alias_index(
        assign_task_alias(
            [entry EXCEPT !.tasks = DictSet(@, request_id,
                              [request_id |-> request_id, prompt |-> prompt, short_id |-> "",
                               alias |-> <<>>, created_at |-> t])],
            request_id, prompt, FALSE))

AliasPrompts == {<<"write", "the", "report">>, <<"write", "Report">>, <<"review">>}

\* a task of a state file written before tasks had aliases
LegacyTasks(rid) ==
    {[request_id |-> rid, prompt |-> p, short_id |-> "", alias |-> <<>>, created_at |-> t] :
        p \in AliasPrompts, t \in {1, 2}}

\* the project entry of this specification's state
project_entry == [tasks |-> tasks, task_alias_index |-> out.task_alias_index, task_seq |-> out.task_seq]

\* load_manager_state: the loaded entry is backfilled
LoadEntry ==
    /\ LET entry == backfill_task_aliases(project_entry)
       IN  /\ tasks' = entry.tasks
           /\ out' = [task_alias_index |-> entry.task_alias_index, task_seq |-> entry.task_seq,
                      loaded |-> TRUE]
    /\ UNCHANGED <<args, chat_sessions, last_request_id, now, unauthorized_sent, poller>>

\* a run on the loaded entry creates the record of a new request
NewTask ==
    /\ Cardinality(DOMAIN tasks) < MaxAliasTasks
    /\ \E p \in AliasPrompts :
           LET entry == new_task_alias(backfill_task_aliases(project_entry),
                                       fresh_request_id(tasks, 1), p, 3)
           IN  /\ tasks' = entry.tasks
               /\ out' = [task_alias_index |-> entry.task_alias_index, task_seq |-> entry.task_seq,
                          loaded |-> TRUE]
    /\ UNCHANGED <<args, chat_sessions, last_request_id, now, unauthorized_sent, poller>>

InitAlias ==
    /\ args = main(DefaultArgs)
    /\ chat_sessions = EmptyDict
    /\ \E ids \in {{}, {"r1"}, {"r1", "r2"}} :
           tasks \in [ids -> UNION {LegacyTasks(rid) : rid \in ids}]
    /\ \A rid \in DOMAIN tasks : tasks[rid].request_id = rid
    /\ last_request_id = ""
    /\ now = 0
    /\ unauthorized_sent = {}
    /\ out = [task_alias_index |-> EmptyDict, task_seq |-> 0, loaded |-> FALSE]
    /\ IdlePoller

NextAlias ==
    \/ LoadEntry
    \/ NewTask

SpecAlias == InitAlias /\ [][NextAlias]_vars

\* C26: in a loaded project no two tasks have aliases with the same
\* normalized key
C26_AliasesUnique ==
    out.loaded
        => \A a, b \in DOMAIN tasks :
               a # b => normalize_task_alias_key(tasks[a].alias) # normalize_task_alias_key(tasks[b].alias)

\* ---------------------------------------------------------------------------
\* Chat aliases (SpecChatAlias).  An alias is the number its digits spell
\* (0 is not a valid alias); the alias file may hold anything.  In this
\* specification out is [chat_aliases_file, chat_alias_cache, alias]: the
\* file's content, args.chat_alias_cache and the alias last returned.
\* ---------------------------------------------------------------------------
MaxChatAlias == 3

\* "[1-9]\d{0,2}"
is_valid_chat_alias(raw) == raw \in 1..999

\* a load that keeps every row of the file
load_chat_aliases_unchecked(data) ==
    [a \in {k \in DOMAIN data : is_valid_chat_alias(k) /\ is_valid_chat_id(data[k])} |-> data[a]]

\* the loop of load_chat_aliases and save_chat_aliases over the keys from a
\* on, in increasing order
RECURSIVE sanitized_aliases(_, _, _)
sanitized_aliases(data, rows, a) ==
    IF a > MaxChatAlias THEN rows
    ELSE sanitized_aliases(data,
             IF /\ a \in DOMAIN data
                /\ is_valid_chat_alias(a)
                /\ is_valid_chat_id(data[a])
                /\ data[a] \notin {rows[k] : k \in DOMAIN rows}
             THEN DictSet(rows, a, data[a])
             ELSE rows,
             a + 1)

load_chat_aliases(data) == sanitized_aliases(data, EmptyDict, 0)

save_chat_aliases(aliases) == sanitized_aliases(aliases, EmptyDict, 0)

\* the loop of merged_chat_aliases over the cache's keys from a on
RECURSIVE merged_rows(_, _, _)
merged_rows(cache, rows, a) ==
    IF a > MaxChatAlias THEN rows
    ELSE merged_rows(cache,
             IF /\ a \in DOMAIN cache
                /\ is_valid_chat_alias(a)
                /\ is_valid_chat_id(cache[a])
                /\ a \notin DOMAIN rows
                /\ cache[a] \notin {rows[k] : k \in DOMAIN rows}
             THEN DictSet(rows, a, cache[a])
             ELSE rows,
             a + 1)

merged_chat_aliases(file, cache) == merged_rows(cache, load_chat_aliases(file), 0)

\* 0 stands for ""
find_chat_alias(aliases, chat_id) ==
    IF \E a \in DOMAIN aliases : aliases[a] = chat_id
    THEN CHOOSE a \in DOMAIN aliases :
             aliases[a] = chat_id /\ \A b \in DOMAIN aliases : aliases[b] = chat_id => a <= b
    ELSE 0

\* next_chat_alias with max_alias = MaxChatAlias; 0 stands for ""
next_chat_alias(aliases) ==
    IF \E idx \in 1..MaxChatAlias : idx \notin DOMAIN aliases
    THEN CHOOSE idx \in 1..MaxChatAlias :
             idx \notin DOMAIN aliases /\ \A j \in 1..(idx - 1) : j \in DOMAIN aliases
    ELSE 0

\* ensure_chat_alias with aliases=None: the file, the cache and the alias after it
ensure_chat_alias(a, o, chat_id, persist) ==
    IF ~is_valid_chat_id(chat_id) THEN [o EXCEPT !.alias = 0]
    ELSE LET rows == merged_chat_aliases(o.chat_aliases_file, o.chat_alias_cache)
             existing == find_chat_alias(rows, chat_id)
             alias == next_chat_alias(rows)
         IN  IF existing # 0 THEN [o EXCEPT !.chat_alias_cache = rows, !.alias = existing]
             ELSE IF alias = 0 THEN [o EXCEPT !.alias = 0]
             ELSE [chat_aliases_file |-> IF persist /\ ~a.dry_run
                                         THEN save_chat_aliases(DictSet(rows, alias, chat_id))
                                         ELSE o.chat_aliases_file,
                   chat_alias_cache |-> DictSet(rows, alias, chat_id),
                   alias |-> alias]

\* the loop of ensure_chat_aliases over chat_ids
RECURSIVE ensured_aliases(_, _)
ensured_aliases(aliases, chat_ids) ==
    IF chat_ids = <<>> THEN aliases
    ELSE IF ~is_valid_chat_id(Head(chat_ids)) \/ find_chat_alias(aliases, Head(chat_ids)) # 0
    THEN ensured_aliases(aliases, Tail(chat_ids))
    ELSE IF next_chat_alias(aliases) = 0 THEN aliases
    ELSE ensured_aliases(DictSet(aliases, next_chat_alias(aliases), Head(chat_ids)), Tail(chat_ids))

ensure_chat_aliases(a, o, chat_ids, persist) ==
    LET merged == merged_chat_aliases(o.chat_aliases_file, o.chat_alias_cache)
        aliases == ensured_aliases(merged, chat_ids)
    IN  [chat_aliases_file |-> IF aliases # merged /\ persist /\ ~a.dry_run
                               THEN save_chat_aliases(aliases)
                               ELSE o.chat_aliases_file,
         chat_alias_cache |-> aliases,
         alias |-> 0]

\* what the alias file may hold: rows under valid and invalid aliases, for
\* valid and invalid chat-ids, a chat-id possibly under two aliases
AliasFiles ==
    UNION {[keys -> Chats \cup {"123"}] : keys \in SUBSET (0..MaxChatAlias)}

\* a chat is sighted, or named by its id in a grant: ensure_chat_alias
Sight ==
    /\ \E chat_id \in Chats \cup {"123"} :
           out' = ensure_chat_alias(args, out, chat_id, ~args.dry_run)
    /\ UNCHANGED <<args, chat_sessions, tasks, last_request_id, now, unauthorized_sent, poller>>

\* /acl lists the chats of the ACL: ensure_chat_aliases
ListAcl ==
    /\ \E chat_ids \in {<<"10001", "10002">>, <<"10002", "123", "10001">>} :
           out' = ensure_chat_aliases(args, out, chat_ids, ~args.dry_run)
    /\ UNCHANGED <<args, chat_sessions, tasks, last_request_id, now, unauthorized_sent, poller>>

InitChatAlias ==
    /\ \E dry \in BOOLEAN : args = main([DefaultArgs EXCEPT !.dry_run = dry])
    /\ chat_sessions = EmptyDict
    /\ tasks = EmptyDict
    /\ last_request_id = ""
    /\ now = 0
    /\ unauthorized_sent = {}
    /\ \E file \in AliasFiles : out = [chat_aliases_file |-> file, chat_alias_cache |-> EmptyDict, alias |-> 0]
    /\ IdlePoller

NextChatAlias ==
    \/ Sight
    \/ ListAcl

SpecChatAlias == InitChatAlias /\ [][NextChatAlias]_vars

\* d maps no two keys to one value
Injective(d) == \A a, b \in DOMAIN d : d[a] = d[b] => a = b

\* the alias map in force
alias_map == merged_chat_aliases(out.chat_aliases_file, out.chat_alias_cache)

\* C27: the alias map in force and the cache pair every alias with one valid
\* chat-id and every chat-id with one alias, and the alias returned for a
\* chat is the one the map holds for it.
C27_AliasMapBijection ==
    /\ Injective(alias_map)
    /\ Injective(out.chat_alias_cache)
    /\ \A a \in DOMAIN alias_map : is_valid_chat_alias(a) /\ is_valid_chat_id(alias_map[a])
    /\ out.alias # 0 => out.alias \in DOMAIN alias_map

\* C27 witness: a file that gave one chat two aliases was loaded and the
\* other chat got the first free alias
C27_SecondChatAliased ==
    /\ \E a, b \in DOMAIN out.chat_aliases_file :
           a # b /\ out.chat_aliases_file[a] = "10001" /\ out.chat_aliases_file[b] = "10001"
    /\ out.alias # 0
    /\ out.chat_alias_cache[out.alias] = "10002"
    /\ Cardinality(DOMAIN alias_map) = 2

\* ---------------------------------------------------------------------------
\* recent_task_refs (SpecRecent): a state file with any refs list is loaded,
\* then tasks are selected and the monitor list is refreshed, every time on
\* the state the file loads to.  Request ids are "1", "2", ...
\* ---------------------------------------------------------------------------
MaxRecentIds == 52

\* the ids "first" .. "last" in increasing order
IdList(first, last) == [i \in 1..(last - first + 1) |-> ToString(first + i - 1)]

\* refs lists a state file may hold: short, at the cap, over it, with repeats
RawRecentRefs ==
    {<<"1", "2">>,
     IdList(1, 49),
     IdList(1, 50),
     IdList(1, MaxRecentIds),
     <<"7", "7", "8", "", "7">>}

SelectableIds == {"2", "50", ToString(MaxRecentIds)}

\* /task, /pick, /check on a request: it is touched and selected
SelectTask ==
    /\ \E chat_id \in Chats, req_id \in SelectableIds :
           chat_sessions' = set_chat_selected_task_ref(
                                touch_chat_recent_task_ref(load_chat_sessions(chat_sessions), chat_id, req_id),
                                chat_id, req_id)
    /\ UNCHANGED <<args, tasks, last_request_id, now, unauthorized_sent, out, poller>>

\* /monitor: the latest requests become the chat's recent refs
MonitorTasks ==
    /\ \E chat_id \in Chats, recent_refs \in {IdList(3, 5), IdList(1, 50)} :
           LET s1 == set_chat_recent_task_refs(load_chat_sessions(chat_sessions), chat_id, recent_refs)
           IN  chat_sessions' = IF get_chat_selected_task_ref(s1, chat_id) = ""
                                THEN set_chat_selected_task_ref(s1, chat_id, recent_refs[1])
                                ELSE s1
    /\ UNCHANGED <<args, tasks, last_request_id, now, unauthorized_sent, out, poller>>

InitRecent ==
    /\ args = main([DefaultArgs EXCEPT !.allow_chat_ids = Chats])
    /\ \E refs \in RawRecentRefs :
           chat_sessions = load_chat_sessions("10001" :> [recent_task_refs |-> refs, updated_at |-> "ts"])
    /\ tasks = EmptyDict
    /\ last_request_id = ""
    /\ now = 0
    /\ unauthorized_sent = {}
    /\ out = NoUpdate
    /\ IdlePoller

NextRecent ==
    \/ SelectTask
    \/ MonitorTasks

SpecRecent == InitRecent /\ [][NextRecent]_vars

\* the refs of every chat are free of repeats and 50 at most
RecentRefsBounded(s) ==
    \A chat_id \in DOMAIN s :
        LET refs == get_chat_recent_task_refs(s, chat_id)
        IN  /\ Len(refs) <= 50
            /\ \A i, j \in DOMAIN refs : refs[i] = refs[j] => i = j

\* the step touched and selected req_id for chat_id
Selects(chat_id, req_id) ==
    chat_sessions' = set_chat_selected_task_ref(
                         touch_chat_recent_task_ref(load_chat_sessions(chat_sessions), chat_id, req_id),
                         chat_id, req_id)

\* C28: recent_task_refs holds no request id twice and 50 ids at most, before
\* and after every step; selecting an id the list holds already leaves the
\* list's length alone and the id at its front.
C28_RecentRefsDedupedAndCapped ==
    [][/\ RecentRefsBounded(chat_sessions)
       /\ RecentRefsBounded(chat_sessions')
       /\ \A chat_id \in Chats, req_id \in SelectableIds :
              LET refs == get_chat_recent_task_refs(chat_sessions, chat_id)
                  after == get_chat_recent_task_refs(chat_sessions', chat_id)
              IN  (Selects(chat_id, req_id) /\ \E i \in DOMAIN refs : refs[i] = req_id)
                      => /\ Len(after) = Len(refs)
                         /\ after[1] = req_id]_vars

\* C28 witness: a full list whose last id was selected again: still 50 ids,
\* that id in front
C28_FullListReselected ==
    /\ "10001" \in DOMAIN chat_sessions
    /\ Len(get_chat_recent_task_refs(chat_sessions, "10001")) = 50
    /\ get_chat_recent_task_refs(chat_sessions, "10001")[1] = "50"
    /\ get_chat_recent_task_refs(chat_sessions, "10001")[50] = "49"
    /\ get_chat_selected_task_ref(chat_sessions, "10001") = "50"

\* C29: every row the manager state file holds in chat_sessions has at least
\* one of pending_mode, default_mode, confirm_action, recent_task_refs,
\* selected_task_refs.
C29_NoEmptySessionRow ==
    \A chat_id \in DOMAIN chat_sessions : (DOMAIN chat_sessions[chat_id]) \cap SessionDataKeys # {}

\* ---------------------------------------------------------------------------
\* Properties of /mode off under the poller (SpecPoller).  out.events are the
\* rows the last handled message appended to gateway_events.jsonl, so the
\* file after a message is the file before it followed by out'.events.
\* ---------------------------------------------------------------------------
ModeOffSent(o) ==
    /\ o.allowed
    /\ o.resolved.cmd = "mode"
    /\ o.resolved.mode_setting = "off"
    /\ o.replies = <<"mode-off">>

\* the poller handles a /mode off right after a /mode off of the same chat
ModeOffTwice ==
    /\ processed' = processed + 1
    /\ ModeOffSent(out)
    /\ ModeOffSent(out')
    /\ out'.chat_id = out.chat_id

\* C30 as stated: a second consecutive /mode off leaves the session rows and
\* the event log as the first left them.
C30_ModeOffTwiceSameLog ==
    [][ModeOffTwice => chat_sessions' = chat_sessions /\ out'.events = <<>>]_vars

\* C30: a second consecutive /mode off leaves the session rows as the first
\* left them and appends the same three rows as the first did:
\* incoming_message, command_resolved, send_message.
C30_ModeOffTwiceSameSessionRow ==
    [][ModeOffTwice
           => /\ chat_sessions' = chat_sessions
              /\ out'.events = out.events
              /\ out'.events = <<<<"incoming_message", "received", "">>,
                                 <<"command_resolved", "accepted", "">>,
                                 <<"send_message", "sent", "">>>>]_vars

C30_SecondModeOffHandled ==
    /\ Len(handled) = 2
    /\ \A i \in 1..2 :
           \E j \in DOMAIN updates :
               /\ updates[j].update_id = handled[i]
               /\ updates[j].message = [chat_id |-> AdminChat, text |-> <<"/off">>]
    /\ ModeOffSent(out)
    /\ AdminChat \notin DOMAIN chat_sessions

\* ---------------------------------------------------------------------------
\* More properties of the task lifecycle (SpecLifecycle)
\* ---------------------------------------------------------------------------
\* C31: a reconciled task whose status is completed has all seven stages done.
C31_CompletedHasAllStagesDone ==
    \A r \in DOMAIN tasks :
        tasks[r].status = "completed"
            => \A stage \in SeqToSet(LIFECYCLE_STAGES) : tasks[r].stages[stage] = "done"

\* ---------------------------------------------------------------------------
\* The running cap over runs, cancels and queries (RunningOf over SpecCancel)
\* ---------------------------------------------------------------------------
\* C32: with a positive running cap, no chat ever has more pending or running
\* tasks than the cap.
C32_RunningNeverExceedsCap ==
    args.chat_max_running > 0
        => \A chat_id \in Chats : Cardinality(RunningOf(chat_id)) <= args.chat_max_running

\* ---------------------------------------------------------------------------
\* Specification of cancellation: one chat under a running cap of one task
\* runs prompts, cancels requests and queries them, the orchestrator answering
\* each call with a failure, a running or a finished request.  A cancel whose
\* answer is a running request is one whose assignments could not be failed
\* (cancel_request_assignments reports them under "failed" and the request's
\* state after it is the state before it).
\* ---------------------------------------------------------------------------
MaxCancelTasks == 2
MaxCancelHistory == 15

CancelWithinBounds ==
    /\ Cardinality(DOMAIN tasks') <= MaxCancelTasks
    /\ \A r \in DOMAIN tasks' : Len(tasks'[r].history) <= MaxCancelHistory

\* the request that is cancelled and queried: the first one run
CancelRequestIds == {"r1"}

\* /dispatch <prompt>
RunPrompt ==
    \E answer \in RunAnswers : Update(AdminChat, <<"/dispatch", SafePrompt>>, answer) /\ CancelWithinBounds

\* /cancel <request>
CancelRequest ==
    \E rid \in CancelRequestIds, answer \in RunAnswers :
        Update(AdminChat, <<"/cancel", rid>>, answer) /\ CancelWithinBounds

\* /check <request>, /task <request>, /request <request>
QueryRequest ==
    \E c \in {"/check", "/task", "/request"}, rid \in CancelRequestIds, answer \in RunAnswers :
        Update(AdminChat, <<c, rid>>, answer) /\ CancelWithinBounds

InitCancel ==
    /\ args = main([DefaultArgs EXCEPT !.allow_chat_ids = {AdminChat}, !.chat_max_running = 1,
                                       !.task_planning = FALSE])
    /\ chat_sessions = EmptyDict
    /\ tasks = EmptyDict
    /\ last_request_id = ""
    /\ now = 0
    /\ unauthorized_sent = {}
    /\ out = NoUpdate
    /\ IdlePoller

NextCancel ==
    \/ RunPrompt
    \/ CancelRequest
    \/ QueryRequest

SpecCancel == InitCancel /\ [][NextCancel]_vars

\* ---------------------------------------------------------------------------
\* Properties of cancellation (SpecCancel)
\* ---------------------------------------------------------------------------
\* C33: a task canceled through orch-cancel has status failed from then on.
C33_CanceledStaysFailed ==
    \A r \in DOMAIN tasks : tasks[r].canceled => tasks[r].status = "failed"

\* ---------------------------------------------------------------------------
\* More properties of access control (SpecAcl)
\* ---------------------------------------------------------------------------
\* C34: under deny_by_default and without an owner, the chat that issues a
\* grant or a revoke as an admin is still an admin after it.
C34_AdminKeepsAdminRole ==
    [][LET o == out'
       IN  (/\ HandlesUpdate
            /\ args.deny_by_default
            /\ args.owner_chat_id = ""
            /\ Command(o) \in {"grant", "revoke"}
            /\ resolve_chat_role(o.chat_id, args) = "admin")
               => resolve_chat_role(o.chat_id, args') = "admin"]_vars

\* ---------------------------------------------------------------------------
\* Specification of the bootstrap: the gateway starts under deny_by_default
\* with an empty ACL and no owner, and two chats send lockme, grants, revokes
\* and the informational commands.
\* ---------------------------------------------------------------------------
InitBootstrap ==
    /\ args = main([DefaultArgs EXCEPT !.allow_chat_ids = {}, !.admin_chat_ids = {},
                                       !.readonly_chat_ids = {}, !.owner_chat_id = "",
                                       !.deny_by_default = TRUE])
    /\ chat_sessions = EmptyDict
    /\ tasks = EmptyDict
    /\ last_request_id = ""
    /\ now = 0
    /\ unauthorized_sent = {}
    /\ out = NoUpdate
    /\ IdlePoller

NextBootstrap ==
    \/ Lockme
    \/ Grant
    \/ Revoke
    \/ Info

SpecBootstrap == InitBootstrap /\ [][NextBootstrap]_vars

\* texts of every kind a chat may send, the bootstrap commands among them
BootstrapProbeTexts ==
    {<<"/lockme">>, <<"/onlyme">>, <<"/help">>, <<"/start">>, <<"/whoami">>, <<"/id">>,
     <<"/acl">>, <<"/dispatch", SafePrompt>>, <<SafePrompt>>}

\* the lockme of a chat that only the bootstrap exception admits took effect
BootstrapLockme ==
    /\ HandlesUpdate
    /\ args.deny_by_default
    /\ acl_is_empty(args)
    /\ ~ensure_chat_allowed(out'.chat_id, args.allow_chat_ids, args.admin_chat_ids,
                            args.readonly_chat_ids, args.deny_by_default, args.owner_chat_id)
    /\ out'.cmd_key = "lockme"
    /\ out'.handler = "management"

C36_OffsetPastEveryUpdate ==
    pending = <<>> => \A i \in DOMAIN updates : offset > updates[i].update_id

\* ---------------------------------------------------------------------------
\* Reconciling twice (SpecLifecycle)
\* ---------------------------------------------------------------------------
\* the project's tasks after one more sync_task_lifecycle with the same
\* snapshot and parameters
Reconciled(tasks_in, data, selected_roles, verifier_roles) ==
    sync_task_lifecycle(tasks_in, data, SafePrompt, "dispatch", selected_roles, verifier_roles,
                        args.require_verifier, resolve_verifier_candidates(args.verifier_roles), now)

\* C37 as stated: a second reconciliation with the same snapshot and the same
\* parameters leaves stages, status and history as the first left them.
C37_SecondReconcileChangesNothing ==
    [][\A data \in Snapshots, selected_roles \in SelectedRoles, verifier_roles \in VerifierRoles :
           tasks' = Reconciled(tasks, data, selected_roles, verifier_roles)
               => LET once == tasks'["r1"]
                      twice == Reconciled(tasks', data, selected_roles, verifier_roles)["r1"]
                  IN  /\ twice.stages = once.stages
                      /\ twice.status = once.status
                      /\ twice.history = once.history]_vars

\* C37: a second reconciliation with the same snapshot and the same
\* parameters leaves the stages and the status as the first left them, and
\* the history too unless the verification stage carries a note: then it
\* appends one more row, that of the verification stage with its note.
C37_SecondReconcileAddsOnlyNotedRow ==
    [][\A data \in Snapshots, selected_roles \in SelectedRoles, verifier_roles \in VerifierRoles :
           tasks' = Reconciled(tasks, data, selected_roles, verifier_roles)
               => LET once == tasks'["r1"]
                      twice == Reconciled(tasks', data, selected_roles, verifier_roles)["r1"]
                      row == twice.history[Len(twice.history)]
                  IN  /\ twice.stages = once.stages
                      /\ twice.status = once.status
                      /\ \/ twice.history = once.history
                         \/ /\ once.stages["verification"] = "failed"
                            /\ twice.history = Append(once.history, row)
                            /\ row.stage = "verification"
                            /\ row.status = "failed"
                            /\ row.note # ""]_vars

\* C37 witness: a task reconciled twice under the same failed verifier gate,
\* the second reconciliation having added the noted row again
C37_NotedRowRepeated ==
    \E r \in DOMAIN tasks :
        LET h == tasks[r].history
        IN  /\ Len(h) = 8
            /\ h[5] = h[8]
            /\ h[8].stage = "verification"
            /\ h[8].note # ""
            /\ h[7].stage = "close"

\* ---------------------------------------------------------------------------
\* Specification of --dry-run: the gateway runs with or without --dry-run,
\* chat 10001 is allowed and chat 10002 is not, and the chats send runs, mode
\* commands and informational commands.
\* ---------------------------------------------------------------------------
InitDryRun ==
    /\ \E dry \in BOOLEAN :
           args = main([DefaultArgs EXCEPT !.allow_chat_ids = {AdminChat}, !.dry_run = dry,
                                           !.task_planning = FALSE])
    /\ chat_sessions = EmptyDict
    /\ tasks = EmptyDict
    /\ last_request_id = ""
    /\ now = 0
    /\ unauthorized_sent = {}
    /\ out = NoUpdate
    /\ IdlePoller

NextDryRun ==
    \/ SlashRun
    \/ Mode
    \/ Info

SpecDryRun == InitDryRun /\ [][NextDryRun]_vars

C39_RolesSentAreSelectedRoles ==
    [][(~args.require_verifier /\ args.roles # <<>>)
           => LET o == out'
              IN  (/\ o.exec.kind = "dispatch"
                   /\ o.exec.request_id # ""
                   /\ o.exec.request_id \notin DOMAIN tasks
                   /\ o.exec.request_id \in DOMAIN tasks')
                      => tasks'[o.exec.request_id].roles = dedupe_roles(args.roles)]_vars

\* ---------------------------------------------------------------------------
\* The selected task and the recent tasks of a chat (SpecReadonly: the
\* readonly chat picks, checks and monitors requests while the admin chat runs
\* them)
\* ---------------------------------------------------------------------------
\* C40: after every handled message, the request id a chat has selected is
\* one of the chat's recent_task_refs.
C40_SelectedIsRecent ==
    \A chat_id \in DOMAIN chat_sessions :
        LET selected == get_chat_selected_task_ref(chat_sessions, chat_id)
            refs == get_chat_recent_task_refs(chat_sessions, chat_id)
        IN  selected # "" => \E i \in DOMAIN refs : refs[i] = selected

\* C40 witness: /pick r1 selected the request and put it in front of the
\* chat's recent refs
C40_PickedIsRecent ==
    /\ out.chat_id = ReadonlyChat
    /\ out.text = <<"/pick", "r1">>
    /\ get_chat_selected_task_ref(chat_sessions, ReadonlyChat) = "r1"
    /\ get_chat_recent_task_refs(chat_sessions, ReadonlyChat) = <<"r1">>

====
